---------------------------- MODULE Spec2Model ----------------------------
(***************************************************************************)
(* CareLink backend: provider matching (bookingMatch.service.ts), booking  *)
(* lifecycle (updateBookingStatus), escrow payments (payhere.service.ts)   *)
(* and emergency escalation (escalateEmergency).                           *)
(*                                                                         *)
(* One booking record "b1" exists; calls may also name an id that matches  *)
(* no record.  Every await on the database or on an external service is a  *)
(* separate step, so calls interleave exactly where the code can yield.    *)
(*                                                                         *)
(* Units: trust scores are kept in hundredths (8004 = 80.04), reported     *)
(* scores and kilometres in tenths (800 = 80.0), distances in metres.      *)
(***************************************************************************)
EXTENDS Integers, Sequences, FiniteSets, Bags, TLC

VARIABLES
    providers,          \* User x Profile x ProviderSkill rows seen by the matcher
    matchOutcome,       \* last findMatchingProviders call: query, raw rows, result
    status,             \* booking.status
    providerId,         \* booking.providerId
    paymentStatus,      \* booking.paymentStatus
    cancellationReason, \* booking.cancellationReason
    upd,                \* updateBookingStatus calls
    notif,              \* handlePaymentNotification calls
    rel,                \* releaseEscrowPayment calls
    esc,                \* escalateEmergency calls
    locationAddress,    \* booking.locationAddress
    emergencyPhone,     \* booking.customer.profile.emergencyPhone
    smsGateway,         \* the SMS provider behind sendSMS: up, down or silent
    breakdowns,         \* results of calculatePaymentBreakdown calls
    trustScore,         \* the calculate_provider_trust_score call: its tables and result
    create,             \* the createBookingAndFindMatches call
    http,               \* responses of escalateEmergencyHandler, per escalation call
    docReview,          \* a provider's documents and skill flags, and the admin's reviews
    checkout,           \* createBookingPayment calls and the checkouts they initiated
    auditLog,           \* rows of the AuditLog table (a bag: the table keeps no order)
    smsLog              \* messages handed to the SMS sender and delivered

vars == <<providers, matchOutcome, status, providerId, paymentStatus,
          cancellationReason, upd, notif, rel, esc, locationAddress, emergencyPhone, smsGateway,
          breakdowns, trustScore, create, http, docReview, checkout, auditLog, smsLog>>

matchVars == <<providers, matchOutcome>>
bookingVars == <<status, providerId, paymentStatus, cancellationReason>>
contactVars == <<locationAddress, emergencyPhone, smsGateway>>
backOfficeVars == <<docReview, checkout>>
calcVars == <<breakdowns, trustScore>>
apiVars == <<create, http>>

\* No document is on file and no payment was asked for.
NoBackOfficeWork ==
    /\ docReview = [set |-> FALSE]
    /\ checkout = [set |-> FALSE]

\* No pure computation has been made yet.
NoCalculations ==
    /\ breakdowns = {}
    /\ trustScore = [set |-> FALSE]

NULL == "NULL"

-----------------------------------------------------------------------------
(* Configuration                                                           *)

SEARCH_RADIUS_METERS == 10000
MAX_PROVIDERS == 50

-----------------------------------------------------------------------------
(* Bounds of the model                                                     *)

MaxProviders == 2
MaxUpdateCalls == 3
MaxNotifications == 2
MaxReleaseCalls == 1
MaxEscalations == 1
MaxGrossCents == 60
MaxBreakdowns == 2
MaxBookings == 3
MaxCrowd == 52
MaxDocuments == 3
MaxReviews == 2
MaxPaymentCalls == 2

ProviderIds == 1..MaxProviders
SkillIds == {"cat1", "cat2"}
UpdCallers == 1..MaxUpdateCalls
NotifCallers == 1..MaxNotifications
RelCallers == 1..MaxReleaseCalls
EscCallers == 1..MaxEscalations

\* The booking record of the model, and an id no record has.
ExistingBooking == "b1"
MissingBooking == "b404"

-----------------------------------------------------------------------------
(* Provider matching: findMatchingProviders                                *)

\* Provider positions are points on a line, in metres (>= 0); a profile whose
\* location was never set holds NullLocation (p.location IS NULL).
NullLocation == -1

\* ST_Distance between a position and the query point.
ST_Distance(location, point) ==
    IF location >= point THEN location - point ELSE point - location

\* ST_DWithin: the containment test of the radius search (inclusive).
ST_DWithinExclusive(location, point, radius) == ST_Distance(location, point) < radius

ST_DWithin(location, point, radius) == ST_Distance(location, point) <= radius

Grant(cat, verified, trust) ==
    [service_category_id |-> cat, is_verified |-> verified, skill_trust_score |-> trust]

ProviderRow(role, active, location, skills) ==
    [role |-> role, is_active |-> active, location |-> location, skills |-> skills]

\* The provider rows the model draws the tables from: providers that pass every
\* filter for category cat1 at several trust scores and positions, and rows that
\* fail exactly one filter.
ProviderRows ==
    { ProviderRow("PROVIDER", TRUE, l, {Grant("cat1", TRUE, t)}) :
        l \in {1000, 10000, 10001}, t \in {8001, 8004, 8500} }
    \cup { ProviderRow("CUSTOMER", TRUE, 1000, {Grant("cat1", TRUE, 8500)}),
           ProviderRow("PROVIDER", FALSE, 1000, {Grant("cat1", TRUE, 8500)}),
           ProviderRow("PROVIDER", TRUE, NullLocation, {Grant("cat1", TRUE, 8500)}),
           ProviderRow("PROVIDER", TRUE, 1000, {}),
           ProviderRow("PROVIDER", TRUE, 1000, {Grant("cat1", FALSE, 8500)}),
           ProviderRow("PROVIDER", TRUE, 1000, {Grant("cat2", TRUE, 8500)}) }

\* A populated area: n providers who pass every filter for category cat1 except,
\* for some, the radius.  Provider 1 stands at 10001 m, provider 2 at 10000 m
\* with the best score, the others nearer; two at a time share a trust score.
Crowd(n) ==
    [u \in 1..n |->
        ProviderRow("PROVIDER", TRUE,
                    IF u = 1 THEN 10001 ELSE IF u = 2 THEN 10000 ELSE 1000 + u,
                    {Grant("cat1", TRUE, IF u = 2 THEN 9000 ELSE 5000 + (u \div 2))})]

\* Crowds around the size at which the LIMIT cuts the result.
Crowds == { Crowd(n) : n \in (MAX_PROVIDERS - 1)..MaxCrowd }

Queries ==
    [serviceCategoryId : SkillIds, point : {0, 1},
     radiusMeters : {SEARCH_RADIUS_METERS, 500}, limit : {MAX_PROVIDERS, 1}]

\* The WHERE clause of the query, for provider u with skill grant ps.
EligibleDropVerified(u, ps, q) ==
    /\ providers[u].role = "PROVIDER"
    /\ providers[u].is_active = TRUE
    /\ ps.service_category_id = q.serviceCategoryId
    /\ providers[u].location # NullLocation
    /\ ST_DWithin(providers[u].location, q.point, q.radiusMeters)

Eligible(u, ps, q) ==
    /\ providers[u].role = "PROVIDER"
    /\ providers[u].is_active = TRUE
    /\ ps.service_category_id = q.serviceCategoryId
    /\ ps.is_verified = TRUE
    /\ providers[u].location # NullLocation
    /\ ST_DWithin(providers[u].location, q.point, q.radiusMeters)

\* The rows the SELECT produces before ordering.
SelectedRows(q) ==
    { [provider_id |-> u,
       skill_trust_score |-> ps.skill_trust_score,
       distance_meters |-> ST_Distance(providers[u].location, q.point)] :
        <<u, ps>> \in { x \in UNION { {<<v, g>> : g \in providers[v].skills} : v \in DOMAIN providers } :
                          Eligible(x[1], x[2], q) } }

\* ORDER BY ps.skill_trust_score DESC, distance_meters ASC: a may precede b.
OrderedBeforeDistanceFirst(a, b) ==
    \/ a.distance_meters < b.distance_meters
    \/ /\ a.distance_meters = b.distance_meters
       /\ a.skill_trust_score >= b.skill_trust_score

OrderedBefore(a, b) ==
    \/ a.skill_trust_score > b.skill_trust_score
    \/ /\ a.skill_trust_score = b.skill_trust_score
       /\ a.distance_meters <= b.distance_meters

\* Every order the database may return the rows in: rows that tie on both keys
\* come in any order.
RECURSIVE OrderedResults(_)
OrderedResults(rows) ==
    IF rows = {} THEN {<<>>}
    ELSE UNION { { <<first>> \o rest : rest \in OrderedResults({r \in rows : r # first}) } :
                   first \in {a \in rows : \A b \in rows : OrderedBefore(a, b)} }

\* LIMIT $5
Limit(s, limit) == SubSeq(s, 1, IF Len(s) < limit THEN Len(s) ELSE limit)

\* Math.round(x * 10) / 10 for a score kept in hundredths; the result in tenths.
RoundTrustScore(hundredths) == (hundredths + 5) \div 10

\* Math.round((metres / 1000) * 10) / 10; the result in tenths of a kilometre.
RoundDistanceKm(metres) == (metres + 50) \div 100

\* results.map(row => MatchedProvider)
MapRow(row) ==
    [providerId |-> row.provider_id,
     trustScore |-> RoundTrustScore(row.skill_trust_score),
     distanceKm |-> RoundDistanceKm(row.distance_meters)]

NoMatch == [kind |-> "none", query |-> NULL, results |-> <<>>, matched |-> <<>>]

FindMatchingProviders ==
    /\ \E q \in Queries :
         \E s \in OrderedResults(SelectedRows(q)) :
            LET results == Limit(s, q.limit) IN
            matchOutcome' = [kind |-> "ok", query |-> q, results |-> results,
                             matched |-> [i \in DOMAIN results |-> MapRow(results[i])]]
    /\ UNCHANGED <<providers, bookingVars, upd, notif, rel, esc, contactVars, backOfficeVars,
                   calcVars, apiVars, auditLog, smsLog>>

\* The query throws (index unavailable, connection lost): GeospatialQueryError.
FindMatchingProvidersFails ==
    /\ \E q \in Queries :
         matchOutcome' = [kind |-> "GeospatialQueryError", query |-> q,
                          results |-> <<>>, matched |-> <<>>]
    /\ UNCHANGED <<providers, bookingVars, upd, notif, rel, esc, contactVars, backOfficeVars,
                   calcVars, apiVars, auditLog, smsLog>>

-----------------------------------------------------------------------------
(* Booking lifecycle: updateBookingStatus                                  *)

BookingStatuses ==
    {"PENDING", "MATCHED", "CONFIRMED", "IN_PROGRESS", "COMPLETED", "CANCELLED", "DISPUTED"}

\* The calls the model issues: every status without a provider, a provider's
\* accept (CONFIRMED with a providerId) by two providers, a call on a missing id.
UpdateArgs ==
    { [bookingId |-> ExistingBooking, status |-> st, providerId |-> NULL] : st \in BookingStatuses }
    \cup { [bookingId |-> ExistingBooking, status |-> "CONFIRMED", providerId |-> p] :
             p \in {"prov1", "prov2"} }
    \cup { [bookingId |-> MissingBooking, status |-> "CANCELLED", providerId |-> NULL] }

\* statusAtCall and concurrentWith record, for the caller, the booking status when
\* the call was issued and the calls that were in flight at that moment.
IdleUpd ==
    [pc |-> "idle", bookingId |-> NULL, status |-> NULL, providerId |-> NULL,
     statusAtCall |-> NULL, concurrentWith |-> {}, outcome |-> NULL]

\* A caller issues updateBookingStatus(bookingId, status, providerId?).
UpdateBookingStatusCall(u) ==
    /\ upd[u].pc = "idle"
    /\ \E a \in UpdateArgs :
         upd' = [upd EXCEPT ![u] =
                    [pc |-> "called", bookingId |-> a.bookingId, status |-> a.status,
                     providerId |-> a.providerId, statusAtCall |-> status,
                     concurrentWith |-> {v \in UpdCallers : upd[v].pc = "called"},
                     outcome |-> NULL]]
    /\ UNCHANGED <<matchVars, bookingVars, notif, rel, esc, contactVars, backOfficeVars,
                   calcVars, apiVars, auditLog, smsLog>>

\* prisma.booking.update({ where: { id }, data: { status, ...(providerId && { providerId }) } })
\* One statement of the database: it writes whatever the record holds.
UpdateBookingStatus(u) ==
    /\ upd[u].pc = "called"
    /\ \/ /\ upd[u].bookingId = ExistingBooking
          /\ status' = upd[u].status
          /\ providerId' = IF upd[u].providerId # NULL THEN upd[u].providerId ELSE providerId
          /\ upd' = [upd EXCEPT ![u].pc = "done", ![u].outcome = "ok"]
       \/ /\ upd[u].bookingId # ExistingBooking
          /\ upd' = [upd EXCEPT ![u].pc = "done", ![u].outcome = "RecordNotFound"]
          /\ UNCHANGED <<status, providerId>>
    /\ UNCHANGED <<matchVars, paymentStatus, cancellationReason, notif, rel, esc,
                   contactVars, backOfficeVars, calcVars, apiVars, auditLog, smsLog>>

-----------------------------------------------------------------------------
(* Escrow payments: payhere.service.ts                                     *)

PaymentStatuses == {"PENDING", "HELD_IN_ESCROW", "RELEASED", "REFUNDED", "FAILED"}

\* getPayHereConfig(): the merchant's credentials.
MerchantId == "merchant"
MerchantSecret == "secret"

\* crypto.createHash('md5').update(x).digest('hex'): a digest of exactly its
\* input, in lower-case hex.  The concatenated fields are kept as a tuple.
Md5Hex(x) == [md5 |-> x, hexCase |-> "lower"]

\* String.prototype.toUpperCase on a hex digest.
ToUpperCase(h) == [h EXCEPT !.hexCase = "upper"]

\* MD5(merchant_id + order_id + amount + currency + status_code + MD5(secret))
generateNotificationHash(merchantId, orderId, amount, currency, statusCode, merchantSecret) ==
    LET secretHash == ToUpperCase(Md5Hex(<<merchantSecret>>))
        hashString == <<merchantId, orderId, amount, currency, statusCode, secretHash>>
    IN  ToUpperCase(Md5Hex(hashString))

mapStatusCode(statusCode) ==
    CASE statusCode = "2" -> "SUCCESS"
      [] statusCode = "0" -> "PENDING"
      [] statusCode = "-1" -> "CANCELLED"
      [] statusCode = "-2" -> "FAILED"
      [] statusCode = "-3" -> "FAILED"
      [] OTHER -> "FAILED"

verifyPaymentNotificationTrusting(notification) ==
    [valid |-> TRUE,
     status |-> mapStatusCode(notification.status_code),
     orderId |-> notification.order_id,
     paymentId |-> notification.payment_id]

verifyPaymentNotification(notification) ==
    LET expectedSig == generateNotificationHash(
                           notification.merchant_id, notification.order_id,
                           notification.payhere_amount, notification.payhere_currency,
                           notification.status_code, MerchantSecret)
    IN  IF ToUpperCase(notification.md5sig) # ToUpperCase(expectedSig)
        THEN [valid |-> FALSE, status |-> "FAILED",
              orderId |-> notification.order_id, paymentId |-> notification.payment_id]
        ELSE [valid |-> TRUE, status |-> mapStatusCode(notification.status_code),
              orderId |-> notification.order_id, paymentId |-> notification.payment_id]

mapToPrismaPaymentStatus(st) ==
    CASE st = "SUCCESS" -> "HELD_IN_ESCROW"
      [] st = "FAILED" -> "FAILED"
      [] st = "CANCELLED" -> "PENDING"
      [] OTHER -> "PENDING"

\* A webhook payload for order ORD-1 of the booking, signed with `secret` over
\* status code `signedCode` and written in `hexCase`.
Notification(statusCode, signedCode, secret, hexCase, custom1) ==
    [merchant_id |-> MerchantId, order_id |-> "ORD-1", payment_id |-> "pay-1",
     payhere_amount |-> "1000.00", payhere_currency |-> "LKR",
     status_code |-> statusCode,
     md5sig |-> [md5 |-> <<MerchantId, "ORD-1", "1000.00", "LKR", signedCode,
                          ToUpperCase(Md5Hex(<<secret>>))>>,
                 hexCase |-> hexCase],
     custom_1 |-> custom1]

\* The payloads the model delivers: genuine ones (success, cancelled, failed), a
\* genuine one with a lower-case signature, one signed with another secret, one
\* whose status code was changed after signing, one without the booking id and
\* one naming a booking that does not exist.
Notifications ==
    { Notification(c, c, MerchantSecret, "upper", ExistingBooking) : c \in {"2", "-1", "-2"} }
    \cup { Notification("2", "2", MerchantSecret, "lower", ExistingBooking),
           Notification("2", "2", "guess", "upper", ExistingBooking),
           Notification("2", "-2", MerchantSecret, "upper", ExistingBooking),
           Notification("2", "2", MerchantSecret, "upper", NULL),
           Notification("2", "2", MerchantSecret, "upper", MissingBooking) }

IdleNotif == [pc |-> "idle", n |-> NULL, status |-> NULL, err |-> NULL]
\* seenStatus and seenPaymentStatus are booking.status and booking.paymentStatus
\* as findUnique returned them.
IdleRel ==
    [pc |-> "idle", bookingId |-> NULL, seenStatus |-> NULL, seenPaymentStatus |-> NULL,
     err |-> NULL]

\* handlePaymentNotification, up to its first database call: verification and
\* the booking id check.
HandlePaymentNotification(n) ==
    /\ notif[n].pc = "idle"
    /\ \E m \in Notifications :
         LET verification == verifyPaymentNotification(m) IN
         notif' = [notif EXCEPT ![n] =
            IF ~verification.valid
            THEN [pc |-> "failed", n |-> m, status |-> verification.status,
                  err |-> "Invalid payment notification signature"]
            ELSE IF m.custom_1 = NULL
            THEN [pc |-> "failed", n |-> m, status |-> verification.status,
                  err |-> "Booking ID not found in notification custom params"]
            ELSE [pc |-> "update", n |-> m, status |-> verification.status, err |-> NULL]]
    /\ UNCHANGED <<matchVars, bookingVars, upd, rel, esc, contactVars, backOfficeVars,
                   calcVars, apiVars, auditLog, smsLog>>

\* prisma.booking.update({ data: { paymentStatus } }) with the mapped status.
NotificationUpdatesStatus(n) ==
    /\ notif[n].pc = "update"
    /\ \/ /\ notif[n].n.custom_1 = ExistingBooking
          /\ paymentStatus' = mapToPrismaPaymentStatus(notif[n].status)
          /\ notif' = [notif EXCEPT ![n].pc =
                          IF notif[n].status = "SUCCESS" THEN "escrow" ELSE "audit"]
       \/ /\ notif[n].n.custom_1 # ExistingBooking
          /\ notif' = [notif EXCEPT ![n].pc = "failed", ![n].err = "RecordNotFound"]
          /\ UNCHANGED paymentStatus
    /\ UNCHANGED <<matchVars, status, providerId, cancellationReason, upd, rel, esc,
                   contactVars, backOfficeVars, calcVars, apiVars, auditLog, smsLog>>

\* if (verification.status === 'SUCCESS') update paymentStatus to HELD_IN_ESCROW
NotificationHoldsInEscrow(n) ==
    /\ notif[n].pc = "escrow"
    /\ paymentStatus' = "HELD_IN_ESCROW"
    /\ notif' = [notif EXCEPT ![n].pc = "audit"]
    /\ UNCHANGED <<matchVars, status, providerId, cancellationReason, upd, rel, esc,
                   contactVars, backOfficeVars, calcVars, apiVars, auditLog, smsLog>>

\* prisma.auditLog.create({ action: 'PAYMENT_NOTIFICATION', ... })
NotificationAudited(n) ==
    /\ notif[n].pc = "audit"
    /\ auditLog' = auditLog (+) SetToBag(
                      {[action |-> "PAYMENT_NOTIFICATION", entityId |-> notif[n].n.custom_1,
                        paymentId |-> notif[n].n.payment_id, status |-> notif[n].status]})
    /\ notif' = [notif EXCEPT ![n].pc = "done"]
    /\ UNCHANGED <<matchVars, bookingVars, upd, rel, esc, contactVars, backOfficeVars,
                   calcVars, apiVars, smsLog>>

\* releaseEscrowPayment without its check of booking.paymentStatus.
ReleaseEscrowPaymentUnchecked(r) ==
    /\ rel[r].pc = "idle"
    /\ \E b \in {ExistingBooking, MissingBooking} :
         rel' = [rel EXCEPT ![r] =
            IF b # ExistingBooking
            THEN [IdleRel EXCEPT !.pc = "failed", !.bookingId = b, !.err = "Booking not found"]
            ELSE [IdleRel EXCEPT !.pc = "update", !.bookingId = b, !.seenStatus = status,
                                 !.seenPaymentStatus = paymentStatus]]
    /\ UNCHANGED <<matchVars, bookingVars, upd, notif, esc, contactVars, backOfficeVars,
                   calcVars, apiVars, auditLog, smsLog>>

\* releaseEscrowPayment: findUnique and the two checks on what it read.
ReleaseEscrowPayment(r) ==
    /\ rel[r].pc = "idle"
    /\ \E b \in {ExistingBooking, MissingBooking} :
         rel' = [rel EXCEPT ![r] =
            IF b # ExistingBooking
            THEN [IdleRel EXCEPT !.pc = "failed", !.bookingId = b, !.err = "Booking not found"]
            ELSE IF paymentStatus # "HELD_IN_ESCROW"
            THEN [IdleRel EXCEPT !.pc = "failed", !.bookingId = b, !.seenStatus = status,
                                 !.seenPaymentStatus = paymentStatus,
                                 !.err = "Cannot release payment"]
            ELSE [IdleRel EXCEPT !.pc = "update", !.bookingId = b, !.seenStatus = status,
                                 !.seenPaymentStatus = paymentStatus]]
    /\ UNCHANGED <<matchVars, bookingVars, upd, notif, esc, contactVars, backOfficeVars,
                   calcVars, apiVars, auditLog, smsLog>>

\* prisma.booking.update({ data: { paymentStatus: RELEASED } })
ReleaseUpdatesStatus(r) ==
    /\ rel[r].pc = "update"
    /\ paymentStatus' = "RELEASED"
    /\ rel' = [rel EXCEPT ![r].pc = "audit"]
    /\ UNCHANGED <<matchVars, status, providerId, cancellationReason, upd, notif, esc,
                   contactVars, backOfficeVars, calcVars, apiVars, auditLog, smsLog>>

\* prisma.auditLog.create({ action: 'PAYMENT_RELEASED', ... })
ReleaseAudited(r) ==
    /\ rel[r].pc = "audit"
    /\ auditLog' = auditLog (+) SetToBag(
                      {[action |-> "PAYMENT_RELEASED", entityId |-> rel[r].bookingId,
                        paymentId |-> NULL, status |-> "RELEASED"]})
    /\ rel' = [rel EXCEPT ![r].pc = "done"]
    /\ UNCHANGED <<matchVars, bookingVars, upd, notif, esc, contactVars, backOfficeVars,
                   calcVars, apiVars, smsLog>>

-----------------------------------------------------------------------------
(* Emergency escalation: escalateEmergency                                 *)

DEFAULT_EMERGENCY_NUMBER == "1990"

\* Strings that the code searches are sequences of characters.
LowerCaseLetters ==
    <<"a", "b", "c", "d", "e", "f", "g", "h", "i", "j", "k", "l", "m", "n", "o", "p", "q", "r", "s", "t", "u", "v", "w", "x", "y", "z">>
UpperCaseLetters ==
    <<"A", "B", "C", "D", "E", "F", "G", "H", "I", "J", "K", "L", "M", "N", "O", "P", "Q", "R", "S", "T", "U", "V", "W", "X", "Y", "Z">>

\* String.prototype.toUpperCase
UpperChar(c) ==
    IF \E i \in DOMAIN LowerCaseLetters : LowerCaseLetters[i] = c
    THEN UpperCaseLetters[CHOOSE i \in DOMAIN LowerCaseLetters : LowerCaseLetters[i] = c]
    ELSE c
toUpperCase(str) == [i \in DOMAIN str |-> UpperChar(str[i])]

\* String.prototype.includes
includes(str, search) ==
    \E i \in 0..(Len(str) - Len(search)) : SubSeq(str, i + 1, i + Len(search)) = search

\* hospitalEmergencyNumbers, in the order Object.entries walks it.
hospitalEmergencyNumbers ==
    << [hospital |-> <<"C", "O", "L", "O", "M", "B", "O", " ", "G", "E", "N", "E", "R", "A", "L", " ", "H", "O", "S", "P", "I", "T", "A", "L">>,
        number |-> "011-2691111"],
       [hospital |-> <<"N", "A", "T", "I", "O", "N", "A", "L", " ", "H", "O", "S", "P", "I", "T", "A", "L">>,
        number |-> "011-2691111"],
       [hospital |-> <<"A", "S", "I", "R", "I", " ", "H", "O", "S", "P", "I", "T", "A", "L">>,
        number |-> "011-4665500"],
       [hospital |-> <<"N", "A", "W", "A", "L", "O", "K", "A", " ", "H", "O", "S", "P", "I", "T", "A", "L">>,
        number |-> "011-5777777"],
       [hospital |-> <<"D", "U", "R", "D", "A", "N", "S", " ", "H", "O", "S", "P", "I", "T", "A", "L">>,
        number |-> "011-2140000"],
       [hospital |-> <<"L", "A", "N", "K", "A", " ", "H", "O", "S", "P", "I", "T", "A", "L", "S">>,
        number |-> "011-5530000"] >>

\* A booking's locationAddress: the text, or null when the request gave none.
Address(text) == [isNull |-> FALSE, text |-> text]
NullAddress == [isNull |-> TRUE, text |-> <<>>]

PlainAddress == <<"1", "2", " ", "G", "a", "l", "l", "e", " ", "R", "d">>
AsiriAddress == <<"A", "s", "i", "r", "i", " ", "H", "o", "s", "p", "i", "t", "a", "l", ",", " ", "C", "o", "l", "o", "m", "b", "o", " ", "5">>
NationalAddress == <<"N", "A", "T", "I", "O", "N", "A", "L", " ", "H", "O", "S", "P", "I", "T", "A", "L">>

\* The first table entry whose name the upper-cased address includes, else the
\* national number.  The caller has checked that the address is not null.
determineEmergencyNumber(address) ==
    LET locationUpper == toUpperCase(address.text)
        hits == { i \in DOMAIN hospitalEmergencyNumbers :
                    includes(locationUpper, hospitalEmergencyNumbers[i].hospital) }
    IN  IF hits = {} THEN DEFAULT_EMERGENCY_NUMBER
        ELSE hospitalEmergencyNumbers[CHOOSE i \in hits : \A j \in hits : i <= j].number

\* The SMS provider answers with success (up), answers with an error (down) or
\* never answers (silent).
SmsGateways == {"up", "down", "silent"}

\* sendSMS of utils/sms.service, awaited by sendEmergencySMS: how the call
\* settles.  The call is bounded by a timeout, so with a provider that never
\* answers it is rejected; without the bound it would never settle.
sendSMSUnbounded(gateway) ==
    CASE gateway = "up" -> {"resolved"}
      [] gateway = "down" -> {"rejected"}
      [] gateway = "silent" -> {}

sendSMS(gateway) ==
    CASE gateway = "up" -> {"resolved"}
      [] gateway = "down" -> {"rejected"}
      [] gateway = "silent" -> {"timeout"}

\* sendEmergencySMS: false without a contact; true when sendSMS resolves; a
\* rejected sendSMS is caught and gives false.  `threw` is an exception that
\* escapes to escalateEmergency.
sendEmergencySMSUncaught(emergencyContact, sendSmsResolves) ==
    IF emergencyContact = NULL THEN [smsSent |-> FALSE, threw |-> FALSE]
    ELSE IF sendSmsResolves THEN [smsSent |-> TRUE, threw |-> FALSE]
    ELSE [smsSent |-> FALSE, threw |-> TRUE]

sendEmergencySMS(emergencyContact, sendSmsResolves) ==
    IF emergencyContact = NULL THEN [smsSent |-> FALSE, threw |-> FALSE]
    ELSE IF sendSmsResolves THEN [smsSent |-> TRUE, threw |-> FALSE]
    ELSE [smsSent |-> FALSE, threw |-> FALSE]

\* The statuses escalateEmergency accepts.
EscalatableStatusesWithPending == {"IN_PROGRESS", "MATCHED", "CONFIRMED", "PENDING"}

EscalatableStatuses == {"IN_PROGRESS", "MATCHED", "CONFIRMED"}

EscalationInputs ==
    { [shiftId |-> ExistingBooking, triggeredBy |-> "CUSTOMER", reason |-> NULL],
      [shiftId |-> ExistingBooking, triggeredBy |-> "PROVIDER", reason |-> "fall"],
      [shiftId |-> MissingBooking, triggeredBy |-> "PROVIDER", reason |-> NULL] }

NoResult ==
    [success |-> FALSE, emergencyNumber |-> NULL, shiftFrozen |-> FALSE,
     smsSent |-> FALSE, incidentReported |-> FALSE]

\* shiftStatus is shift.status as read in step 1; smsTried tells whether sendSMS
\* was called and how it ended ("none", "resolved", "rejected").
IdleEsc ==
    [pc |-> "idle", input |-> NULL, shiftStatus |-> NULL, emergencyNumber |-> NULL,
     smsTried |-> "none", smsSent |-> FALSE, err |-> NULL, result |-> NoResult]

\* Step 1: findUnique and the two checks on what it read.
EscalateEmergency(e) ==
    /\ esc[e].pc = "idle"
    /\ \E input \in EscalationInputs :
         esc' = [esc EXCEPT ![e] =
            IF input.shiftId # ExistingBooking
            THEN [IdleEsc EXCEPT !.pc = "failed", !.input = input, !.err = "Shift not found"]
            ELSE IF status \notin EscalatableStatuses
            THEN [IdleEsc EXCEPT !.pc = "failed", !.input = input, !.shiftStatus = status,
                                 !.err = "Cannot escalate emergency for shift in status"]
            ELSE [IdleEsc EXCEPT !.pc = "freeze", !.input = input, !.shiftStatus = status]]
    /\ UNCHANGED <<matchVars, bookingVars, upd, notif, rel, contactVars, backOfficeVars,
                   calcVars, apiVars, auditLog, smsLog>>

\* Step 2: prisma.booking.update({ status: DISPUTED, cancellationReason })
EscalationFreezesShift(e) ==
    /\ esc[e].pc = "freeze"
    /\ status' = "DISPUTED"
    /\ cancellationReason' =
          <<"EMERGENCY_ESCALATION", esc[e].input.triggeredBy,
            IF esc[e].input.reason = NULL THEN "Not specified" ELSE esc[e].input.reason>>
    /\ esc' = [esc EXCEPT ![e].pc = "notify"]
    /\ UNCHANGED <<matchVars, providerId, paymentStatus, upd, notif, rel, contactVars,
                   backOfficeVars, calcVars, apiVars,
                   auditLog, smsLog>>

\* Steps 3 and 4: determineEmergencyNumber, then sendEmergencySMS when the
\* customer has an emergency phone.  toUpperCase on a null address throws.
EscalationNotifies(e) ==
    /\ esc[e].pc = "notify"
    /\ \/ /\ locationAddress.isNull
          /\ esc' = [esc EXCEPT ![e].pc = "failed", ![e].err = "TypeError"]
          /\ UNCHANGED smsLog
       \/ /\ ~locationAddress.isNull
          /\ \E settled \in (IF emergencyPhone = NULL THEN {"none"} ELSE sendSMS(smsGateway)) :
               LET sendSmsResolves == settled = "resolved"
                   emergencyNumber == determineEmergencyNumber(locationAddress)
                   sms == sendEmergencySMS(emergencyPhone, sendSmsResolves)
                   tried == IF emergencyPhone = NULL THEN "none"
                            ELSE IF sendSmsResolves THEN "resolved" ELSE "rejected"
               IN  /\ esc' = [esc EXCEPT ![e] =
                        IF sms.threw
                        THEN [@ EXCEPT !.pc = "failed", !.emergencyNumber = emergencyNumber,
                                       !.smsTried = tried, !.err = "sendSMS failed"]
                        ELSE [@ EXCEPT !.pc = "audit", !.emergencyNumber = emergencyNumber,
                                       !.smsTried = tried, !.smsSent = sms.smsSent]]
                   /\ smsLog' = IF tried = "resolved"
                                THEN smsLog (+) SetToBag({[to |-> emergencyPhone,
                                                           emergencyNumber |-> emergencyNumber]})
                                ELSE smsLog
    /\ UNCHANGED <<matchVars, bookingVars, upd, notif, rel, contactVars, backOfficeVars,
                   calcVars, apiVars, auditLog>>

\* Step 5: prisma.auditLog.create({ action: 'EMERGENCY_ESCALATION', ... }) and
\* the return; a failed insert throws and the catch block rethrows it.
EscalationAudited(e) ==
    /\ esc[e].pc = "audit"
    /\ \/ /\ auditLog' = auditLog (+) SetToBag(
                {[action |-> "EMERGENCY_ESCALATION", entityId |-> esc[e].input.shiftId,
                  oldStatus |-> esc[e].shiftStatus, triggeredBy |-> esc[e].input.triggeredBy,
                  emergencyNumber |-> esc[e].emergencyNumber, smsSent |-> esc[e].smsSent]})
          /\ esc' = [esc EXCEPT ![e].pc = "done",
                                ![e].result =
                                    [success |-> TRUE,
                                     emergencyNumber |-> esc[e].emergencyNumber,
                                     shiftFrozen |-> TRUE,
                                     smsSent |-> esc[e].smsSent,
                                     incidentReported |-> TRUE]]
       \/ /\ esc' = [esc EXCEPT ![e].pc = "failed", ![e].err = "auditLog.create failed"]
          /\ UNCHANGED auditLog
    /\ UNCHANGED <<matchVars, bookingVars, upd, notif, rel, contactVars, backOfficeVars,
                   calcVars, apiVars, smsLog>>

-----------------------------------------------------------------------------
(* Booking creation: createBookingAndFindMatches                           *)

\* What prisma.user.findUnique and prisma.serviceCategory.findUnique return for
\* the ids of the request: no row, an inactive row, an active row.
CreateInputs ==
    [customer : {"missing", "inactive", "active"},
     category : {"missing", "inactive"} \cup SkillIds,
     point : {0, 1}]

Error(name, code) == [name |-> name, code |-> code]
NoError == Error(NULL, NULL)

\* The classes that extend AppError (errors/AppError.ts).
AppErrors ==
    {"AppError", "CustomerNotFoundError", "ServiceCategoryNotFoundError",
     "DatabaseError", "GeospatialQueryError"}

\* The catch block of createBookingAndFindMatches with the instanceof test taken
\* out: every error is wrapped.
WrapEveryError(error) == Error("DatabaseError", "DATABASE_ERROR")

\* The catch block: an AppError is rethrown as it is, anything else is wrapped.
RethrowOrWrap(error) ==
    IF error.name \in AppErrors THEN error ELSE Error("DatabaseError", "DATABASE_ERROR")

NoCreateResult == [bookingStatus |-> NULL, matchedProviders |-> <<>>, totalMatches |-> 0]

IdleCreate == [pc |-> "idle", input |-> NULL, err |-> NoError, result |-> NoCreateResult]

\* Step 1: the customer lookup and its two checks.
CreateBookingAndFindMatches ==
    /\ create.pc = "idle"
    /\ \E input \in CreateInputs :
         create' =
            IF input.customer = "missing"
            THEN [IdleCreate EXCEPT !.pc = "failed", !.input = input,
                     !.err = RethrowOrWrap(Error("CustomerNotFoundError", "CUSTOMER_NOT_FOUND"))]
            ELSE IF input.customer = "inactive"
            THEN [IdleCreate EXCEPT !.pc = "failed", !.input = input,
                     !.err = RethrowOrWrap(Error("AppError", "CUSTOMER_NOT_FOUND"))]
            ELSE [IdleCreate EXCEPT !.pc = "category", !.input = input]
    /\ UNCHANGED <<matchVars, bookingVars, upd, notif, rel, esc, contactVars, backOfficeVars,
                   calcVars, http,
                   auditLog, smsLog>>

\* Step 2 with the insert of step 3 moved in front of the checks.
CreateInsertsBeforeCategoryCheck ==
    /\ create.pc = "category"
    /\ status' = "PENDING"
    /\ create' =
          IF create.input.category = "missing"
          THEN [create EXCEPT !.pc = "failed",
                   !.err = RethrowOrWrap(Error("ServiceCategoryNotFoundError",
                                               "SERVICE_CATEGORY_NOT_FOUND"))]
          ELSE IF create.input.category = "inactive"
          THEN [create EXCEPT !.pc = "failed",
                   !.err = RethrowOrWrap(Error("AppError", "SERVICE_CATEGORY_NOT_FOUND"))]
          ELSE [create EXCEPT !.pc = "create"]
    /\ UNCHANGED <<matchVars, providerId, paymentStatus, cancellationReason, upd, notif, rel,
                   esc, contactVars, backOfficeVars, calcVars, http, auditLog, smsLog>>

\* Step 2: the service category lookup and its two checks.
CreateChecksCategory ==
    /\ create.pc = "category"
    /\ create' =
          IF create.input.category = "missing"
          THEN [create EXCEPT !.pc = "failed",
                   !.err = RethrowOrWrap(Error("ServiceCategoryNotFoundError",
                                               "SERVICE_CATEGORY_NOT_FOUND"))]
          ELSE IF create.input.category = "inactive"
          THEN [create EXCEPT !.pc = "failed",
                   !.err = RethrowOrWrap(Error("AppError", "SERVICE_CATEGORY_NOT_FOUND"))]
          ELSE [create EXCEPT !.pc = "create"]
    /\ UNCHANGED <<matchVars, bookingVars, upd, notif, rel, esc, contactVars, backOfficeVars,
                   calcVars, http,
                   auditLog, smsLog>>

\* Step 3: prisma.booking.create({ status: PENDING, ... }); a failed insert
\* throws a Prisma error.
CreateBookingRecord ==
    /\ create.pc = "create"
    /\ \/ /\ status' = "PENDING"
          /\ create' = [create EXCEPT !.pc = "match"]
       \/ /\ create' = [create EXCEPT !.pc = "failed",
                           !.err = RethrowOrWrap(Error("PrismaClientKnownRequestError", NULL))]
          /\ UNCHANGED status
    /\ UNCHANGED <<matchVars, providerId, paymentStatus, cancellationReason, upd, notif, rel,
                   esc, contactVars, backOfficeVars, calcVars, http, auditLog, smsLog>>

\* Steps 4 and 5: findMatchingProviders with the service's radius and limit, and
\* the return; the query's own catch block turns a failure into a
\* GeospatialQueryError, which passes through the outer catch block.
CreateFindsMatches ==
    /\ create.pc = "match"
    /\ LET q == [serviceCategoryId |-> create.input.category, point |-> create.input.point,
                 radiusMeters |-> SEARCH_RADIUS_METERS, limit |-> MAX_PROVIDERS]
       IN  \/ \E s \in OrderedResults(SelectedRows(q)) :
                LET results == Limit(s, q.limit)
                    matched == [i \in DOMAIN results |-> MapRow(results[i])]
                IN  /\ matchOutcome' = [kind |-> "ok", query |-> q, results |-> results,
                                        matched |-> matched]
                    /\ create' = [create EXCEPT !.pc = "done",
                                     !.result = [bookingStatus |-> "PENDING",
                                                 matchedProviders |-> matched,
                                                 totalMatches |-> Len(matched)]]
           \/ /\ matchOutcome' = [kind |-> "GeospatialQueryError", query |-> q,
                                  results |-> <<>>, matched |-> <<>>]
              /\ create' = [create EXCEPT !.pc = "failed",
                               !.err = RethrowOrWrap(Error("GeospatialQueryError",
                                                           "GEOSPATIAL_QUERY_ERROR"))]
    /\ UNCHANGED <<providers, bookingVars, upd, notif, rel, esc, contactVars, backOfficeVars,
                   calcVars, http,
                   auditLog, smsLog>>

-----------------------------------------------------------------------------
(* The escalation endpoint: escalateEmergencyHandler                       *)

\* The text of a status, as it appears in an error message.
StatusText(st) ==
    CASE st = "PENDING" ->
        <<"P", "E", "N", "D", "I", "N", "G">>
      [] st = "MATCHED" ->
        <<"M", "A", "T", "C", "H", "E", "D">>
      [] st = "CONFIRMED" ->
        <<"C", "O", "N", "F", "I", "R", "M", "E", "D">>
      [] st = "IN_PROGRESS" ->
        <<"I", "N", "_", "P", "R", "O", "G", "R", "E", "S", "S">>
      [] st = "COMPLETED" ->
        <<"C", "O", "M", "P", "L", "E", "T", "E", "D">>
      [] st = "CANCELLED" ->
        <<"C", "A", "N", "C", "E", "L", "L", "E", "D">>
      [] st = "DISPUTED" ->
        <<"D", "I", "S", "P", "U", "T", "E", "D">>

\* `Shift not found: ${shiftId}`
ShiftNotFoundMessage ==
    <<"S", "h", "i", "f", "t", " ", "n", "o", "t", " ", "f", "o", "u", "n", "d", ":", " ", "b",
      "4", "0", "4">>

\* `Cannot escalate emergency for shift in status: ${shift.status}`
InvalidStatusMessage(st) ==
    <<"C", "a", "n", "n", "o", "t", " ", "e", "s", "c", "a", "l", "a", "t", "e", " ", "e", "m",
      "e", "r", "g", "e", "n", "c", "y", " ", "f", "o", "r", " ", "s", "h", "i", "f", "t", " ",
      "i", "n", " ", "s", "t", "a", "t", "u", "s", ":", " ">>
    \o StatusText(st)

\* The TypeError of toUpperCase on null, and a failed prisma.auditLog.create.
NullAddressMessage ==
    <<"C", "a", "n", "n", "o", "t", " ", "r", "e", "a", "d", " ", "p", "r", "o", "p", "e", "r",
      "t", "i", "e", "s", " ", "o", "f", " ", "n", "u", "l", "l", " ", "(", "r", "e", "a", "d",
      "i", "n", "g", " ", "'", "t", "o", "U", "p", "p", "e", "r", "C", "a", "s", "e", "'", ")">>
AuditFailureMessage ==
    <<"I", "n", "v", "a", "l", "i", "d", " ", "p", "r", "i", "s", "m", "a", ".", "a", "u",
      "d", "i", "t", "L", "o", "g", ".", "c", "r", "e", "a", "t", "e", "(", ")", " ", "i",
      "n", "v", "o", "c", "a", "t", "i", "o", "n">>

\* The substrings the handler looks for.
NotFoundText ==
    <<"n", "o", "t", " ", "f", "o", "u", "n", "d">>
ActiveStateText ==
    <<"a", "c", "t", "i", "v", "e", " ", "s", "t", "a", "t", "e">>

\* error.message of the error a failed escalateEmergency call threw.
ErrorMessage(call) ==
    CASE call.err = "Shift not found" -> ShiftNotFoundMessage
      [] call.err = "Cannot escalate emergency for shift in status" ->
            InvalidStatusMessage(call.shiftStatus)
      [] call.err = "TypeError" -> NullAddressMessage
      [] OTHER -> AuditFailureMessage

Response(statusCode, code) == [status |-> statusCode, code |-> code]
NoResponse == Response(0, NULL)

\* globalErrorHandler for what escalateEmergency throws: none is an AppError; a
\* Prisma request error is a database error, any other Error an internal one.
globalErrorHandler(call) ==
    IF call.err = "auditLog.create failed" THEN Response(500, "DATABASE_ERROR")
    ELSE Response(500, "INTERNAL_SERVER_ERROR")

\* The catch block of escalateEmergencyHandler and the success response.
escalateEmergencyHandlerResponse(call) ==
    IF call.pc = "done" THEN Response(200, "OK")
    ELSE IF includes(ErrorMessage(call), NotFoundText) THEN Response(404, "SHIFT_NOT_FOUND")
    ELSE IF includes(ErrorMessage(call), ActiveStateText)
    THEN Response(400, "INVALID_SHIFT_STATE")
    ELSE globalErrorHandler(call)

\* The handler answers without calling the service: no authenticated user, or
\* a body that fails the schema.
HandlerRejectsRequest(e) ==
    /\ esc[e].pc = "idle"
    /\ http[e] = NoResponse
    /\ \E r \in {Response(401, "UNAUTHORIZED"), Response(400, "VALIDATION_ERROR")} :
          http' = [http EXCEPT ![e] = r]
    /\ UNCHANGED <<matchVars, bookingVars, upd, notif, rel, esc, contactVars, backOfficeVars,
                   calcVars, create,
                   auditLog, smsLog>>

\* The handler calls the service.
HandlerCallsService(e) ==
    /\ http[e] = NoResponse
    /\ EscalateEmergency(e)

\* The service call has returned or thrown, and the handler answers.
HandlerResponds(e) ==
    /\ esc[e].pc \in {"done", "failed"}
    /\ http[e] = NoResponse
    /\ http' = [http EXCEPT ![e] = escalateEmergencyHandlerResponse(esc[e])]
    /\ UNCHANGED <<matchVars, bookingVars, upd, notif, rel, esc, contactVars, backOfficeVars,
                   calcVars, create,
                   auditLog, smsLog>>

\* No API call has been made yet.
NoApiCalls ==
    /\ create = IdleCreate
    /\ http = [e \in EscCallers |-> NoResponse]

InitMatch ==
    /\ providers \in [ProviderIds -> ProviderRows]
    /\ matchOutcome = NoMatch
    /\ status = "PENDING"
    /\ providerId = NULL
    /\ paymentStatus = "PENDING"
    /\ cancellationReason = NULL
    /\ upd = [u \in UpdCallers |-> IdleUpd]
    /\ notif = [n \in NotifCallers |-> IdleNotif]
    /\ rel = [r \in RelCallers |-> IdleRel]
    /\ esc = [e \in EscCallers |-> IdleEsc]
    /\ locationAddress = Address(PlainAddress)
    /\ emergencyPhone = NULL
    /\ smsGateway = "up"
    /\ NoCalculations
    /\ NoApiCalls
    /\ NoBackOfficeWork
    /\ auditLog = EmptyBag
    /\ smsLog = EmptyBag

NextMatch == FindMatchingProviders \/ FindMatchingProvidersFails

SpecMatch == InitMatch /\ [][NextMatch]_vars

Matched == matchOutcome.matched
Results == matchOutcome.results

\* C1: every candidate findMatchingProviders returns is a provider whose role is
\* PROVIDER, who is active, who holds a verified skill grant for the requested
\* category, whose location is set and whose distance to the query point is at
\* most the radius; a provider failing any of these is never returned.
C1_OnlyEligibleReturned ==
    matchOutcome.kind = "ok" =>
        \A i \in DOMAIN Matched :
            LET u == Matched[i].providerId
                q == matchOutcome.query
            IN  /\ u \in ProviderIds
                /\ providers[u].role = "PROVIDER"
                /\ providers[u].is_active
                /\ \E g \in providers[u].skills :
                      g.service_category_id = q.serviceCategoryId /\ g.is_verified
                /\ providers[u].location # NullLocation
                /\ providers[u].location - q.point <= q.radiusMeters
                /\ q.point - providers[u].location <= q.radiusMeters

\* A call that returned a candidate while the table also held a provider with an
\* unverified grant for the requested category, which was left out.
C1_Witness ==
    /\ matchOutcome.kind = "ok"
    /\ Len(Matched) >= 1
    /\ \E u \in ProviderIds :
          /\ \E g \in providers[u].skills :
                g.service_category_id = matchOutcome.query.serviceCategoryId
                /\ ~g.is_verified
          /\ \A i \in DOMAIN Matched : Matched[i].providerId # u

\* C2 (as stated): in every returned sequence the reported trustScore values are
\* non-increasing, and for every adjacent pair whose reported trustScore values
\* are equal the reported distanceKm values are non-decreasing.
C2_ReportedTieBreak ==
    matchOutcome.kind = "ok" =>
        \A i \in DOMAIN Matched :
            i + 1 \in DOMAIN Matched =>
                /\ Matched[i].trustScore >= Matched[i + 1].trustScore
                /\ Matched[i].trustScore = Matched[i + 1].trustScore
                      => Matched[i].distanceKm <= Matched[i + 1].distanceKm

\* C2 (amended): the reported trustScore values are non-increasing, and for every
\* adjacent pair whose stored skill_trust_score values are equal the reported
\* distanceKm values are non-decreasing.
C2_StoredTieBreak ==
    matchOutcome.kind = "ok" =>
        \A i \in DOMAIN Matched :
            i + 1 \in DOMAIN Matched =>
                /\ Matched[i].trustScore >= Matched[i + 1].trustScore
                /\ Results[i].skill_trust_score = Results[i + 1].skill_trust_score
                      => Matched[i].distanceKm <= Matched[i + 1].distanceKm

\* Two candidates with the same stored score, the nearer one first.
C2_Witness ==
    /\ matchOutcome.kind = "ok"
    /\ Len(Matched) >= 2
    /\ Results[1].skill_trust_score = Results[2].skill_trust_score
    /\ Matched[1].distanceKm < Matched[2].distanceKm

-----------------------------------------------------------------------------
(* Matching in sparse and in populated areas                               *)

InitCrowd ==
    /\ providers \in [ProviderIds -> ProviderRows] \cup Crowds
    /\ matchOutcome = NoMatch
    /\ status = "PENDING"
    /\ providerId = NULL
    /\ paymentStatus = "PENDING"
    /\ cancellationReason = NULL
    /\ upd = [u \in UpdCallers |-> IdleUpd]
    /\ notif = [n \in NotifCallers |-> IdleNotif]
    /\ rel = [r \in RelCallers |-> IdleRel]
    /\ esc = [e \in EscCallers |-> IdleEsc]
    /\ locationAddress = Address(PlainAddress)
    /\ emergencyPhone = NULL
    /\ smsGateway = "up"
    /\ NoCalculations
    /\ NoApiCalls
    /\ NoBackOfficeWork
    /\ auditLog = EmptyBag
    /\ smsLog = EmptyBag

SpecCrowd == InitCrowd /\ [][NextMatch]_vars

\* The providers the query of the last call had to select, with the stored
\* score and the exact distance the ordering uses.
EligibleProviders ==
    LET q == matchOutcome.query IN
    { u \in DOMAIN providers :
        /\ providers[u].role = "PROVIDER"
        /\ providers[u].is_active
        /\ \E g \in providers[u].skills :
              g.service_category_id = q.serviceCategoryId /\ g.is_verified
        /\ providers[u].location # NullLocation
        /\ providers[u].location - q.point <= q.radiusMeters
        /\ q.point - providers[u].location <= q.radiusMeters }

StoredScore(u) ==
    LET g == CHOOSE g \in providers[u].skills :
                g.service_category_id = matchOutcome.query.serviceCategoryId /\ g.is_verified
    IN  g.skill_trust_score

ExactDistance(u) ==
    LET d == providers[u].location - matchOutcome.query.point
    IN  IF d >= 0 THEN d ELSE -d

\* Provider u may stand before provider v in the ranking.
RankedBefore(u, v) ==
    \/ StoredScore(u) > StoredScore(v)
    \/ StoredScore(u) = StoredScore(v) /\ ExactDistance(u) <= ExactDistance(v)

\* C21: the result of findMatchingProviders is the first min(limit, n) of the n
\* eligible providers ranked by trust score descending, then distance
\* ascending: with the default limit it never has more than 50 elements and it
\* holds every eligible provider when n <= 50; the radius is inclusive, so a
\* provider at exactly the radius is eligible and one a metre farther is not.
C21_FirstFiftyOfRanking ==
    matchOutcome.kind = "ok" =>
        LET q == matchOutcome.query
            n == Cardinality(EligibleProviders)
            returned == { Matched[i].providerId : i \in DOMAIN Matched }
        IN  /\ Len(Matched) = IF n < q.limit THEN n ELSE q.limit
            /\ Cardinality(returned) = Len(Matched)
            /\ returned \subseteq EligibleProviders
            /\ \A i, j \in DOMAIN Matched :
                  i < j => RankedBefore(Matched[i].providerId, Matched[j].providerId)
            /\ \A u \in returned : \A v \in EligibleProviders \ returned : RankedBefore(u, v)
            /\ q.limit = MAX_PROVIDERS =>
                  /\ Len(Matched) <= 50
                  /\ n <= 50 => returned = EligibleProviders

\* Fifty-one providers are eligible and fifty are returned, the first of them
\* the provider at exactly 10000 m; the provider at 10001 m is not returned.
C21_Witness ==
    /\ matchOutcome.kind = "ok"
    /\ matchOutcome.query.limit = MAX_PROVIDERS
    /\ matchOutcome.query.radiusMeters = SEARCH_RADIUS_METERS
    /\ Cardinality(EligibleProviders) = 51
    /\ Len(Matched) = 50
    /\ ExactDistance(Matched[1].providerId) = 10000
    /\ \E u \in DOMAIN providers :
          /\ ExactDistance(u) = 10001
          /\ \A i \in DOMAIN Matched : Matched[i].providerId # u

-----------------------------------------------------------------------------
(* The booking lifecycle on its own                                        *)

InitLifecycle ==
    /\ providers = [u \in ProviderIds |-> ProviderRow("PROVIDER", TRUE, 1000, {})]
    /\ matchOutcome = NoMatch
    /\ status = "PENDING"
    /\ providerId = NULL
    /\ paymentStatus = "PENDING"
    /\ cancellationReason = NULL
    /\ upd = [u \in UpdCallers |-> IdleUpd]
    /\ notif = [n \in NotifCallers |-> IdleNotif]
    /\ rel = [r \in RelCallers |-> IdleRel]
    /\ esc = [e \in EscCallers |-> IdleEsc]
    /\ locationAddress = Address(PlainAddress)
    /\ emergencyPhone = NULL
    /\ smsGateway = "up"
    /\ NoCalculations
    /\ NoApiCalls
    /\ NoBackOfficeWork
    /\ auditLog = EmptyBag
    /\ smsLog = EmptyBag

NextLifecycle ==
    \E u \in UpdCallers : UpdateBookingStatusCall(u) \/ UpdateBookingStatus(u)

SpecLifecycle == InitLifecycle /\ [][NextLifecycle]_vars

IsAccept(u) ==
    /\ upd[u].bookingId = ExistingBooking
    /\ upd[u].status = "CONFIRMED"
    /\ upd[u].providerId # NULL
    /\ upd[u].statusAtCall \in {"PENDING", "MATCHED"}

\* C5: when two provider-accept calls run concurrently on the same PENDING or
\* MATCHED booking, exactly one of them succeeds, the other fails with an
\* invalid-state-transition error, and the booking's providerId is the winner's.
C5_ExactlyOneAcceptWins ==
    \A u, v \in UpdCallers :
        ( /\ u # v
          /\ IsAccept(u) /\ IsAccept(v)
          /\ u \in upd[v].concurrentWith
          /\ upd[u].pc = "done" /\ upd[v].pc = "done" )
        => \E w \in {u, v} :
              /\ upd[w].outcome = "ok"
              /\ \A l \in {u, v} \ {w} : upd[l].outcome = "InvalidStateTransition"
              /\ providerId = upd[w].providerId

\* The transitions the lifecycle lists.
ListedTransitions ==
    { <<"PENDING", "MATCHED">>, <<"MATCHED", "CONFIRMED">>,
      <<"CONFIRMED", "IN_PROGRESS">>, <<"IN_PROGRESS", "COMPLETED">> }
    \cup { <<st, "CANCELLED">> : st \in {"PENDING", "MATCHED", "CONFIRMED", "IN_PROGRESS"} }
    \cup { <<st, "DISPUTED">> : st \in {"MATCHED", "CONFIRMED", "IN_PROGRESS"} }

\* C6: for every (current status, requested status) pair that is not a listed
\* transition, updateBookingStatus fails with an InvalidState error and leaves
\* the booking's status and providerId unchanged.
C6_UnlistedTransitionFails ==
    [][ \A u \in UpdCallers :
          ( /\ upd[u].pc = "called"
            /\ upd'[u].pc = "done"
            /\ upd[u].bookingId = ExistingBooking
            /\ <<status, upd[u].status>> \notin ListedTransitions )
          => ( /\ upd'[u].outcome = "InvalidState"
               /\ status' = status
               /\ providerId' = providerId ) ]_vars

-----------------------------------------------------------------------------
(* The escrow ledger of a booking that is in progress or completed         *)

InitEscrow ==
    /\ providers = [u \in ProviderIds |-> ProviderRow("PROVIDER", TRUE, 1000, {})]
    /\ matchOutcome = NoMatch
    /\ status \in {"IN_PROGRESS", "COMPLETED"}
    /\ providerId = NULL
    /\ paymentStatus = "PENDING"
    /\ cancellationReason = NULL
    /\ upd = [u \in UpdCallers |-> IdleUpd]
    /\ notif = [n \in NotifCallers |-> IdleNotif]
    /\ rel = [r \in RelCallers |-> IdleRel]
    /\ esc = [e \in EscCallers |-> IdleEsc]
    /\ locationAddress = Address(PlainAddress)
    /\ emergencyPhone = NULL
    /\ smsGateway = "up"
    /\ NoCalculations
    /\ NoApiCalls
    /\ NoBackOfficeWork
    /\ auditLog = EmptyBag
    /\ smsLog = EmptyBag

NextEscrow ==
    \/ \E n \in NotifCallers :
          \/ HandlePaymentNotification(n)
          \/ NotificationUpdatesStatus(n)
          \/ NotificationHoldsInEscrow(n)
          \/ NotificationAudited(n)
    \/ \E r \in RelCallers :
          \/ ReleaseEscrowPayment(r)
          \/ ReleaseUpdatesStatus(r)
          \/ ReleaseAudited(r)

SpecEscrow == InitEscrow /\ [][NextEscrow]_vars

\* C3: a SUCCESS notification whose order_id has already been handled is
\* discarded as a duplicate: handling it leaves the payment status unchanged,
\* RELEASED included, so the ledger enters HELD_IN_ESCROW once per order.
C3_DuplicateDiscarded ==
    [][ \A n \in NotifCallers :
          ( /\ notif'[n] # notif[n]
            /\ notif[n].pc # "idle"
            /\ notif[n].status = "SUCCESS"
            /\ \E k \in NotifCallers \ {n} :
                  /\ notif[k].pc = "done"
                  /\ notif[k].status = "SUCCESS"
                  /\ notif[k].n.order_id = notif[n].n.order_id )
          => paymentStatus' = paymentStatus ]_vars

\* C4: releaseEscrowPayment goes on to write RELEASED only when the booking it
\* read is COMPLETED; on a booking in any other lifecycle status whose ledger is
\* HELD_IN_ESCROW it fails with an 'escrow not releasable' error.
C4_ReleaseOnlyWhenCompleted ==
    \A r \in RelCallers :
        ( /\ rel[r].pc # "idle"
          /\ rel[r].bookingId = ExistingBooking
          /\ rel[r].seenStatus # "COMPLETED"
          /\ rel[r].err # "Cannot release payment" )
        => ( /\ rel[r].pc = "failed"
             /\ rel[r].err = "Escrow not releasable" )

\* C11: the payment status is RELEASED only if it was HELD_IN_ESCROW at an
\* earlier point of the history: whenever the ledger reads RELEASED, a release
\* call has written it, and that call had read HELD_IN_ESCROW before its write.
C11_ReleasedOnlyAfterHeld ==
    /\ paymentStatus = "RELEASED"
         => \E r \in RelCallers :
               /\ rel[r].pc \in {"audit", "done"}
               /\ rel[r].seenPaymentStatus = "HELD_IN_ESCROW"
    /\ \A r \in RelCallers :
          rel[r].pc \in {"update", "audit", "done"}
             => rel[r].seenPaymentStatus = "HELD_IN_ESCROW"

\* The ledger reads RELEASED after a release that interleaved with a FAILED
\* notification.
C11_Witness ==
    /\ paymentStatus = "RELEASED"
    /\ \E r \in RelCallers : rel[r].pc = "done"
    /\ \E n \in NotifCallers : notif[n].pc = "done" /\ notif[n].status = "FAILED"

\* The ledger transitions the specification lists.
ListedLedgerTransitions ==
    { <<"PENDING", "HELD_IN_ESCROW">>, <<"PENDING", "FAILED">>, <<"FAILED", "PENDING">>,
      <<"HELD_IN_ESCROW", "RELEASED">>, <<"HELD_IN_ESCROW", "REFUNDED">> }

\* C12: every change of the payment status made by handlePaymentNotification
\* or releaseEscrowPayment is a listed ledger transition: FAILED is entered only
\* from PENDING, HELD_IN_ESCROW is left only to RELEASED or REFUNDED, and
\* RELEASED and REFUNDED are never left.
C12_OnlyListedLedgerTransitions ==
    [][ paymentStatus' # paymentStatus
          => <<paymentStatus, paymentStatus'>> \in ListedLedgerTransitions ]_vars

\* The recomputed signature differs from md5sig, or custom_1 is missing.
Rejected(m) ==
    \/ m.md5sig.md5 # <<m.merchant_id, m.order_id, m.payhere_amount, m.payhere_currency,
                        m.status_code, [md5 |-> <<MerchantSecret>>, hexCase |-> "upper"]>>
    \/ m.custom_1 = NULL

\* C10: a notification whose recomputed signature does not match md5sig, or
\* whose booking id parameter is missing, is rejected with an error and has no
\* effect: the call fails, the payment status is unchanged and no audit entry
\* is written.
C10_RejectedHasNoEffect ==
    [][ \A n \in NotifCallers :
          ( /\ notif'[n] # notif[n]
            /\ Rejected(notif'[n].n) )
          => ( /\ notif[n].pc = "idle"
               /\ notif'[n].pc = "failed"
               /\ notif'[n].err \in {"Invalid payment notification signature",
                                     "Booking ID not found in notification custom params"}
               /\ paymentStatus' = paymentStatus
               /\ auditLog' = auditLog ) ]_vars

\* A notification whose status code was changed after signing was rejected
\* while the ledger held a payment in escrow.
C10_Witness ==
    /\ paymentStatus = "HELD_IN_ESCROW"
    /\ \E n \in NotifCallers :
          /\ notif[n].pc = "failed"
          /\ notif[n].err = "Invalid payment notification signature"
          /\ notif[n].n.status_code = "2"
          /\ notif[n].n.md5sig.md5[5] = "-2"
          /\ notif[n].n.md5sig.md5[6].md5 = <<MerchantSecret>>

-----------------------------------------------------------------------------
(* Emergency escalation next to one updateBookingStatus call               *)

InitEmergency ==
    /\ providers = [u \in ProviderIds |-> ProviderRow("PROVIDER", TRUE, 1000, {})]
    /\ matchOutcome = NoMatch
    /\ status \in {"PENDING", "IN_PROGRESS"}
    /\ providerId = NULL
    /\ paymentStatus = "PENDING"
    /\ cancellationReason = NULL
    /\ upd = [u \in UpdCallers |-> IdleUpd]
    /\ notif = [n \in NotifCallers |-> IdleNotif]
    /\ rel = [r \in RelCallers |-> IdleRel]
    /\ esc = [e \in EscCallers |-> IdleEsc]
    /\ locationAddress \in {NullAddress, Address(PlainAddress), Address(AsiriAddress),
                            Address(NationalAddress)}
    /\ emergencyPhone \in {NULL, "+94770000000"}
    /\ smsGateway \in (IF emergencyPhone = NULL THEN {"up"} ELSE SmsGateways)
    /\ NoCalculations
    /\ NoApiCalls
    /\ NoBackOfficeWork
    /\ auditLog = EmptyBag
    /\ smsLog = EmptyBag

NextEmergency ==
    \/ \E e \in EscCallers :
          \/ EscalateEmergency(e)
          \/ EscalationFreezesShift(e)
          \/ EscalationNotifies(e)
          \/ EscalationAudited(e)
    \/ UpdateBookingStatusCall(1)
    \/ UpdateBookingStatus(1)

SpecEmergency == InitEmergency /\ [][NextEmergency]_vars

\* C7: escalateEmergency succeeds only when the status it read is MATCHED,
\* CONFIRMED or IN_PROGRESS; on an existing booking read as PENDING, COMPLETED,
\* CANCELLED or DISPUTED the call fails at once and for good, and that failure
\* leaves status, cancellationReason, the SMS log and the audit log as they were.
C7_EscalationOnlyWhenActive ==
    [][\A e \in EscCallers :
          /\ (esc[e].pc = "idle" /\ esc'[e].pc # "idle"
                /\ esc'[e].input.shiftId = ExistingBooking
                /\ status \in {"PENDING", "COMPLETED", "CANCELLED", "DISPUTED"})
             => /\ esc'[e].pc = "failed"
                /\ esc'[e].err = "Cannot escalate emergency for shift in status"
                /\ UNCHANGED <<status, cancellationReason, smsLog, auditLog>>
          /\ esc[e].pc = "failed" => esc'[e] = esc[e]
          /\ esc'[e].pc \in {"freeze", "notify", "audit", "done"}
             => esc'[e].shiftStatus \in {"MATCHED", "CONFIRMED", "IN_PROGRESS"}
          /\ esc'[e].result.success
             => esc'[e].shiftStatus \in {"MATCHED", "CONFIRMED", "IN_PROGRESS"}
      ]_vars

\* A call on a COMPLETED booking has failed and nothing was frozen or recorded.
C7_Witness ==
    \E e \in EscCallers :
        /\ esc[e].pc = "failed"
        /\ esc[e].shiftStatus = "COMPLETED"
        /\ status = "COMPLETED"
        /\ cancellationReason = NULL
        /\ auditLog = EmptyBag
        /\ smsLog = EmptyBag

C9_RunsToCompletionAfterFreeze ==
    \A e \in EscCallers :
        esc[e].pc = "failed"
        => esc[e].err \in {"Shift not found", "Cannot escalate emergency for shift in status"}

\* C18: the booking enters DISPUTED through escalateEmergency only directly
\* from MATCHED, CONFIRMED or IN_PROGRESS: in every interleaving with other
\* status changes, the status immediately before the escalation's write of
\* DISPUTED is one of the three.
C18_DisputedOnlyFromActive ==
    [][ \A e \in EscCallers :
          (esc[e].pc = "freeze" /\ esc'[e].pc = "notify")
             => status \in {"MATCHED", "CONFIRMED", "IN_PROGRESS"} ]_vars

\* Escalation calls on their own, with the scheduling the runtime gives them:
\* once the promise a call awaits has settled, the call goes on.  The database
\* answers or fails; the SMS provider may stay silent, and sendSMS settles then
\* by its timeout.  Nothing obliges a caller to start a call.
NextEscalationLive ==
    \E e \in EscCallers :
        \/ EscalateEmergency(e)
        \/ EscalationFreezesShift(e)
        \/ EscalationNotifies(e)
        \/ EscalationAudited(e)

SpecEscalationLive ==
    /\ InitEmergency
    /\ [][NextEscalationLive]_vars
    /\ \A e \in EscCallers :
          WF_vars(EscalationFreezesShift(e) \/ EscalationNotifies(e) \/ EscalationAudited(e))

OccursIgnoringCase(name, text) ==
    \E i \in 0..(Len(text) - Len(name)) :
        \A k \in 1..Len(name) : UpperChar(text[i + k]) = UpperChar(name[k])

\* The table entries whose name occurs in the booking's location address; a
\* booking without address text names no facility.
FacilitiesInAddress ==
    IF locationAddress.isNull THEN {}
    ELSE { i \in DOMAIN hospitalEmergencyNumbers :
             OccursIgnoringCase(hospitalEmergencyNumbers[i].hospital, locationAddress.text) }

\* C20: once an escalation has resolved the emergency number, the number is not
\* empty; it is the number of a facility of the table whose name occurs in the
\* booking's location address, letter case ignored, and it is the national
\* default 1990 exactly when no facility name occurs in the address.
C20_FacilityNumberOrDefault ==
    \A e \in EscCallers :
        (\/ esc[e].pc \in {"audit", "done"}
         \/ esc[e].pc = "failed" /\ esc[e].err \in {"TypeError", "auditLog.create failed"})
           => /\ esc[e].emergencyNumber # NULL
              /\ IF FacilitiesInAddress = {}
                 THEN esc[e].emergencyNumber = DEFAULT_EMERGENCY_NUMBER
                 ELSE /\ esc[e].emergencyNumber # DEFAULT_EMERGENCY_NUMBER
                      /\ \E i \in FacilitiesInAddress :
                            esc[e].emergencyNumber = hospitalEmergencyNumbers[i].number

-----------------------------------------------------------------------------
(* Escalation requests through the endpoint                                *)

InitEscalationApi ==
    /\ providers = [u \in ProviderIds |-> ProviderRow("PROVIDER", TRUE, 1000, {})]
    /\ matchOutcome = NoMatch
    /\ status \in BookingStatuses
    /\ providerId = NULL
    /\ paymentStatus = "PENDING"
    /\ cancellationReason = NULL
    /\ upd = [u \in UpdCallers |-> IdleUpd]
    /\ notif = [n \in NotifCallers |-> IdleNotif]
    /\ rel = [r \in RelCallers |-> IdleRel]
    /\ esc = [e \in EscCallers |-> IdleEsc]
    /\ locationAddress \in {NullAddress, Address(PlainAddress)}
    /\ emergencyPhone \in {NULL, "+94770000000"}
    /\ smsGateway \in (IF emergencyPhone = NULL THEN {"up"} ELSE SmsGateways)
    /\ NoCalculations
    /\ NoApiCalls
    /\ NoBackOfficeWork
    /\ auditLog = EmptyBag
    /\ smsLog = EmptyBag

NextEscalationApi ==
    \E e \in EscCallers :
        \/ HandlerRejectsRequest(e)
        \/ HandlerCallsService(e)
        \/ EscalationFreezesShift(e)
        \/ EscalationNotifies(e)
        \/ EscalationAudited(e)
        \/ HandlerResponds(e)

SpecEscalationApi == InitEscalationApi /\ [][NextEscalationApi]_vars

\* C19: the endpoint reports the two precondition failures as distinct errors:
\* 404 SHIFT_NOT_FOUND when the shift does not exist, 400 INVALID_SHIFT_STATE
\* when it exists but is not MATCHED, CONFIRMED or IN_PROGRESS; the invalid
\* state is never answered as a 500.
C19_DistinctPreconditionErrors ==
    \A e \in EscCallers :
        (esc[e].pc = "failed" /\ http[e] # NoResponse)
           => /\ esc[e].err = "Shift not found"
                    => http[e] = Response(404, "SHIFT_NOT_FOUND")
              /\ esc[e].err = "Cannot escalate emergency for shift in status"
                    => http[e] = Response(400, "INVALID_SHIFT_STATE")

-----------------------------------------------------------------------------
(* Fee split: calculatePaymentBreakdown                                    *)
(*                                                                         *)
(* JavaScript numbers are IEEE 754 binary64.  A number >= 0 is kept as the *)
(* set of the exponents of its one-bits ({1, -1} is 2.5), every operation  *)
(* is computed exactly and then rounded to 53 significant bits, ties to    *)
(* even, as the hardware does.  Exact sums and products are formed column  *)
(* by column (column k holds the weight of 2^k) and then carried upwards.  *)

PLATFORM_FEE_PERCENTAGE == 10

\* Significant bits of a binary64 number.
DoublePrecision == 53

\* Fraction bits produced by a division before the remainder becomes a sticky bit.
QuotientFractionBits == 70

MaxOf(S) == CHOOSE x \in S : \A y \in S : y <= x
MinOf(S) == CHOOSE x \in S : \A y \in S : x <= y

\* The value of eight adjacent columns, column k weighing 2^k * col[k].
ChunkValue(col, base) ==
    col[base] + 2 * col[base + 1] + 4 * col[base + 2] + 8 * col[base + 3]
    + 16 * col[base + 4] + 32 * col[base + 5] + 64 * col[base + 6] + 128 * col[base + 7]

\* Carry propagation, eight columns at a time, from exponent `base` upwards;
\* columns above `hi` are empty.
RECURSIVE PropagateCarry(_, _, _, _)
PropagateCarry(col, base, hi, carry) ==
    IF base > hi /\ carry = 0 THEN {}
    ELSE LET total == carry + (IF base > hi THEN 0 ELSE ChunkValue(col, base))
         IN  {base + i : i \in {j \in 0..7 : (total \div 2^j) % 2 = 1}}
             \cup PropagateCarry(col, base + 8, hi, total \div 256)

\* The number sum of 2^k * weight(k) over lo..hi, which must be >= 0.
ColumnsToNumber(col, lo, hi) ==
    LET padded == [k \in lo..(hi + 8) |-> IF k <= hi THEN col[k] ELSE 0]
    IN  {x : x \in PropagateCarry(padded, lo, hi, 0)}

Indicator(k, S) == IF k \in S THEN 1 ELSE 0

AddExact(A, B) ==
    IF A \cup B = {} THEN {}
    ELSE LET lo == MinOf(A \cup B)
             hi == MaxOf(A \cup B)
         IN  ColumnsToNumber([k \in lo..hi |-> Indicator(k, A) + Indicator(k, B)], lo, hi)

\* A - B, for A >= B
SubExact(A, B) ==
    IF A \cup B = {} THEN {}
    ELSE LET lo == MinOf(A \cup B)
             hi == MaxOf(A \cup B)
         IN  ColumnsToNumber([k \in lo..hi |-> Indicator(k, A) - Indicator(k, B)], lo, hi)

MulExact(A, B) ==
    IF A = {} \/ B = {} THEN {}
    ELSE LET lo == MinOf(A) + MinOf(B)
             hi == MaxOf(A) + MaxOf(B)
         IN  ColumnsToNumber([k \in lo..hi |-> Cardinality({a \in A : (k - a) \in B})],
                             lo, hi)

\* Round to nearest, ties to even (no subnormals or overflow at these sizes).
RoundToDouble(S) ==
    IF S = {} THEN {}
    ELSE LET lsb == MaxOf(S) - (DoublePrecision - 1)
             kept == {e \in S : e >= lsb}
             roundUp == /\ (lsb - 1) \in S
                        /\ \/ \E e \in S : e < lsb - 1
                           \/ lsb \in S
         IN  IF roundUp THEN AddExact(kept, {lsb}) ELSE kept

\* A <= B
LessOrEqual(A, B) == A = B \/ MaxOf((A \ B) \cup (B \ A)) \in B

\* An integer 0 .. 2^31 - 1 as a number, and back.
IntToDouble(n) == {e \in 0..30 : (n \div 2^e) % 2 = 1}

RECURSIVE DoubleToInt(_)
DoubleToInt(S) ==
    IF S = {} THEN 0 ELSE LET e == MaxOf(S) IN 2^e + DoubleToInt({x \in S : x # e})

\* The bits of r / d (r < d) at exponents -k .. -last, and one bit below them
\* that stands for a remainder that is not zero.
RECURSIVE QuotientBits(_, _, _, _)
QuotientBits(r, d, k, last) ==
    IF k > last THEN (IF r # 0 THEN {-(last + 1)} ELSE {})
    ELSE IF 2 * r >= d THEN {-k} \cup QuotientBits(2 * r - d, d, k + 1, last)
    ELSE QuotientBits(2 * r, d, k + 1, last)

\* n / d for integers n >= 0, d > 0: also the number a decimal literal n/d denotes.
DivideInts(n, d) ==
    RoundToDouble({x : x \in IntToDouble(n \div d)
                               \cup QuotientBits(n % d, d, 1, QuotientFractionBits)})

Times(a, b) == RoundToDouble(MulExact(a, b))
Plus(a, b) == RoundToDouble(AddExact(a, b))
Minus(a, b) == RoundToDouble(SubExact(a, b))

\* Math.round: the nearest integer, a tie going up.
MathRound(x) ==
    LET integerPart == {e \in x : e >= 0}
    IN  IF -1 \in x THEN AddExact(integerPart, {0}) ELSE integerPart

\* calculatePaymentBreakdown(totalAmount).  The fee never exceeds the total for
\* totals of at least 0.01, so the subtraction stays >= 0.
calculatePaymentBreakdown(totalAmount) ==
    LET rate == DivideInts(PLATFORM_FEE_PERCENTAGE, 100)
        rounded == MathRound(Times(Times(totalAmount, rate), IntToDouble(100)))
        platformFee == DivideInts(DoubleToInt(rounded), 100)
        providerPayout == Minus(totalAmount, platformFee)
    IN  [totalAmount |-> totalAmount, platformFee |-> platformFee,
         providerPayout |-> providerPayout]

\* The gross amounts the model splits, in cents: every amount up to the bound,
\* and 1000.00.  The argument of the call is the number the decimal denotes.
GrossCents == 1..MaxGrossCents \cup {100000}

CalculatePaymentBreakdown ==
    /\ Cardinality(breakdowns) < MaxBreakdowns
    /\ \E c \in GrossCents :
         breakdowns' = breakdowns \cup
            {[grossCents |-> c, breakdown |-> calculatePaymentBreakdown(DivideInts(c, 100))]}
    /\ UNCHANGED <<matchVars, bookingVars, upd, notif, rel, esc, contactVars, backOfficeVars,
                   trustScore,
                   apiVars, auditLog, smsLog>>

InitFees ==
    /\ providers = [u \in ProviderIds |-> ProviderRow("PROVIDER", TRUE, 1000, {})]
    /\ matchOutcome = NoMatch
    /\ status = "PENDING"
    /\ providerId = NULL
    /\ paymentStatus = "PENDING"
    /\ cancellationReason = NULL
    /\ upd = [u \in UpdCallers |-> IdleUpd]
    /\ notif = [n \in NotifCallers |-> IdleNotif]
    /\ rel = [r \in RelCallers |-> IdleRel]
    /\ esc = [e \in EscCallers |-> IdleEsc]
    /\ locationAddress = Address(PlainAddress)
    /\ emergencyPhone = NULL
    /\ smsGateway = "up"
    /\ NoCalculations
    /\ NoApiCalls
    /\ NoBackOfficeWork
    /\ auditLog = EmptyBag
    /\ smsLog = EmptyBag

NextFees == CalculatePaymentBreakdown

SpecFees == InitFees /\ [][NextFees]_vars

\* C13: for every gross amount of at least 0.01, platformFee + providerPayout
\* equals the gross amount exactly, and platformFee lies between 0 and the
\* gross amount.
C13_SplitSumsToGross ==
    \A b \in breakdowns :
        /\ Plus(b.breakdown.platformFee, b.breakdown.providerPayout) = b.breakdown.totalAmount
        /\ LessOrEqual(b.breakdown.platformFee, b.breakdown.totalAmount)

\* Ways of rounding c / 10 to an integer.
RoundingRules == {"floor", "ceiling", "halfUp", "halfDown", "halfEven"}

RoundTenth(rule, c) ==
    CASE rule = "floor" -> c \div 10
      [] rule = "ceiling" -> (c + 9) \div 10
      [] rule = "halfUp" -> (c + 5) \div 10
      [] rule = "halfDown" -> (c + 4) \div 10
      [] rule = "halfEven" -> IF c % 10 = 5 /\ (c \div 10) % 2 = 0
                              THEN c \div 10 ELSE (c + 5) \div 10

\* C14: the fee is the gross amount times 0.10 rounded to the cent with one
\* consistent rounding rule, so one rule accounts for every split computed;
\* 1000.00 gives fee 100.00 and payout 900.00.
C14_OneRoundingRule ==
    /\ \E rule \in RoundingRules :
          \A b \in breakdowns :
              b.breakdown.platformFee = DivideInts(RoundTenth(rule, b.grossCents), 100)
    /\ \A b \in breakdowns :
          b.grossCents = 100000
             => /\ b.breakdown.platformFee = IntToDouble(100)
                /\ b.breakdown.providerPayout = IntToDouble(900)

-----------------------------------------------------------------------------
(* Booking creation with matching                                          *)

InitCreate ==
    /\ providers \in [ProviderIds -> ProviderRows]
    /\ matchOutcome = NoMatch
    /\ status = NULL
    /\ providerId = NULL
    /\ paymentStatus = "PENDING"
    /\ cancellationReason = NULL
    /\ upd = [u \in UpdCallers |-> IdleUpd]
    /\ notif = [n \in NotifCallers |-> IdleNotif]
    /\ rel = [r \in RelCallers |-> IdleRel]
    /\ esc = [e \in EscCallers |-> IdleEsc]
    /\ locationAddress = Address(PlainAddress)
    /\ emergencyPhone = NULL
    /\ smsGateway = "up"
    /\ NoCalculations
    /\ NoApiCalls
    /\ NoBackOfficeWork
    /\ auditLog = EmptyBag
    /\ smsLog = EmptyBag

NextCreate ==
    \/ CreateBookingAndFindMatches
    \/ CreateChecksCategory
    \/ CreateBookingRecord
    \/ CreateFindsMatches

SpecCreate == InitCreate /\ [][NextCreate]_vars

\* A provider that the query of the call would select.
SomeProviderEligible ==
    \E u \in ProviderIds : \E g \in providers[u].skills :
        /\ providers[u].role = "PROVIDER"
        /\ providers[u].is_active
        /\ g.service_category_id = create.input.category
        /\ g.is_verified
        /\ providers[u].location # NullLocation
        /\ providers[u].location - create.input.point <= SEARCH_RADIUS_METERS
        /\ create.input.point - providers[u].location <= SEARCH_RADIUS_METERS

\* C15: zero matches and a broken matcher are told apart: a call whose query
\* ran returns normally, with an empty matchedProviders and totalMatches = 0
\* when no provider is eligible; a call whose query failed never returns a
\* result but fails with GeospatialQueryError (GEOSPATIAL_QUERY_ERROR), not
\* rewrapped as DatabaseError.
C15_ZeroMatchesIsNotAnError ==
    /\ (create.pc = "done" /\ ~SomeProviderEligible)
          => /\ create.result.matchedProviders = <<>>
             /\ create.result.totalMatches = 0
    /\ create.pc = "done"
          => /\ matchOutcome.kind = "ok"
             /\ create.err = NoError
             /\ create.result.totalMatches = Len(create.result.matchedProviders)
    /\ matchOutcome.kind = "ok" => create.pc = "done"
    /\ matchOutcome.kind = "GeospatialQueryError"
          => /\ create.pc = "failed"
             /\ create.err = Error("GeospatialQueryError", "GEOSPATIAL_QUERY_ERROR")
             /\ create.result = NoCreateResult

\* The call returned no candidate although the table holds an active provider
\* with a verified grant, 10001 m away.
C15_Witness ==
    /\ create.pc = "done"
    /\ create.result.totalMatches = 0
    /\ create.result.matchedProviders = <<>>
    /\ \E u \in ProviderIds :
          /\ providers[u].location = 10001
          /\ create.input.point = 0
          /\ \E g \in providers[u].skills :
                g.service_category_id = create.input.category /\ g.is_verified

\* C16: after createBookingAndFindMatches returns, the booking is MATCHED when
\* totalMatches >= 1 and PENDING when totalMatches = 0.
C16_MatchedWhenProvidersFound ==
    create.pc = "done"
       => status = (IF create.result.totalMatches >= 1 THEN "MATCHED" ELSE "PENDING")

-----------------------------------------------------------------------------
(* Trust score: calculate_provider_trust_score(provider_id)                *)

\* response_time_min IS NULL
NullMinutes == -1

\* The tables as the function sees them for provider P: P's bookings
\* (completed, total), the bookings of other providers, bookings without a
\* provider, the ratings of P's reviews, P's verification documents (verified,
\* total) and P's profile row.
TrustTables ==
    [own : {<<c, t>> \in (0..MaxBookings) \X (0..MaxBookings) : c <= t},
     others : {<<0, 0>>, <<0, 1>>},
     unassigned : {0, 1},
     ratings : {<<>>, <<5>>, <<3, 3, 4>>},
     docs : {<<0, 0>>, <<1, 1>>, <<1, 2>>},
     profile : {[exists |-> FALSE, response_time_min |-> NullMinutes]}
               \cup {[exists |-> TRUE, response_time_min |-> m] :
                       m \in {NullMinutes, 15, 16, 30, 31, 60, 61}}]

\* How PL/pgSQL resolves `WHERE provider_id = provider_id`, where the name is a
\* column of bookings and the function's parameter: plpgsql.variable_conflict
\* is error (the default), use_column or use_variable.
VariableConflict == {"error", "use_column", "use_variable"}

\* The bookings rows the first query counts, as (completed, total).  With
\* use_column the condition is column = column, true of every row whose
\* provider_id is not null; with use_variable it is parameter = parameter, true
\* of every row.
CountedBookings(db, conflict) ==
    IF conflict = "use_column"
    THEN <<db.own[1] + db.others[1], db.own[2] + db.others[2]>>
    ELSE <<db.own[1] + db.others[1], db.own[2] + db.others[2] + db.unassigned>>

\* The numbers 100, 0.4, 0.3, 0.2 and 0.1 of the function.
OneHundred == IntToDouble(100)
CompletionWeight == DivideInts(4, 10)
RatingWeight == DivideInts(3, 10)
VerificationWeight == DivideInts(2, 10)
ResponseWeight == DivideInts(1, 10)

\* COALESCE(COUNT(CASE ...)::DOUBLE PRECISION / NULLIF(COUNT(*), 0), 0) * 100
Percentage(part, total) ==
    IF total = 0 THEN {} ELSE Times(DivideInts(part, total), OneHundred)

RECURSIVE SumOf(_)
SumOf(seq) == IF seq = <<>> THEN 0 ELSE Head(seq) + SumOf(Tail(seq))

\* COALESCE(AVG(rating), 0) * 20, as the double nearest to the exact value.
AverageRatingScore(ratings) ==
    IF ratings = <<>> THEN {} ELSE DivideInts(20 * SumOf(ratings), Len(ratings))

\* CASE WHEN response_time_min IS NULL THEN 50 WHEN ... <= 15 THEN 100 ...
ResponseScore(response_time_min) ==
    IF response_time_min = NullMinutes THEN 50
    ELSE IF response_time_min <= 15 THEN 100
    ELSE IF response_time_min <= 30 THEN 80
    ELSE IF response_time_min <= 60 THEN 60
    ELSE 40

\* The RETURN expression with the completion weight taken as 0.5.
WeightedSumHalfCompletion(completion_rate, avg_rating, verification_score, response_score) ==
    Plus(Plus(Plus(Times(completion_rate, DivideInts(5, 10)),
                   Times(avg_rating, RatingWeight)),
              Times(verification_score, VerificationWeight)),
         Times(response_score, ResponseWeight))

\* (completion_rate * 0.4) + (avg_rating * 0.3) + (verification_score * 0.2)
\* + (response_score * 0.1)
WeightedSum(completion_rate, avg_rating, verification_score, response_score) ==
    Plus(Plus(Plus(Times(completion_rate, CompletionWeight),
                   Times(avg_rating, RatingWeight)),
              Times(verification_score, VerificationWeight)),
         Times(response_score, ResponseWeight))

\* The function's result: an error raised by the first query, NULL when the
\* profiles query finds no row (response_score stays NULL and NULL propagates
\* through the sum), or the score.
calculate_provider_trust_score(db, conflict) ==
    IF conflict = "error"
    THEN [outcome |-> "error", score |-> {}]
    ELSE IF ~db.profile.exists
    THEN [outcome |-> "null", score |-> {}]
    ELSE LET counted == CountedBookings(db, conflict)
         IN  [outcome |-> "score",
              score |-> WeightedSum(Percentage(counted[1], counted[2]),
                                    AverageRatingScore(db.ratings),
                                    Percentage(db.docs[1], db.docs[2]),
                                    IntToDouble(ResponseScore(db.profile.response_time_min)))]

NoScore == [outcome |-> "none", score |-> {}]

CalculateProviderTrustScore ==
    /\ trustScore.set
    /\ ~trustScore.called
    /\ trustScore' = [trustScore EXCEPT
                         !.called = TRUE,
                         !.result = calculate_provider_trust_score(trustScore.db,
                                                                   trustScore.conflict)]
    /\ UNCHANGED <<matchVars, bookingVars, upd, notif, rel, esc, contactVars, backOfficeVars,
                   breakdowns,
                   apiVars, auditLog, smsLog>>

InitTrust ==
    /\ providers = [u \in ProviderIds |-> ProviderRow("PROVIDER", TRUE, 1000, {})]
    /\ matchOutcome = NoMatch
    /\ status = "PENDING"
    /\ providerId = NULL
    /\ paymentStatus = "PENDING"
    /\ cancellationReason = NULL
    /\ upd = [u \in UpdCallers |-> IdleUpd]
    /\ notif = [n \in NotifCallers |-> IdleNotif]
    /\ rel = [r \in RelCallers |-> IdleRel]
    /\ esc = [e \in EscCallers |-> IdleEsc]
    /\ locationAddress = Address(PlainAddress)
    /\ emergencyPhone = NULL
    /\ smsGateway = "up"
    /\ breakdowns = {}
    /\ trustScore \in [set : {TRUE}, called : {FALSE}, db : TrustTables,
                       conflict : VariableConflict, result : {NoScore}]
    /\ NoApiCalls
    /\ NoBackOfficeWork
    /\ auditLog = EmptyBag
    /\ smsLog = EmptyBag

NextTrust == CalculateProviderTrustScore

SpecTrust == InitTrust /\ [][NextTrust]_vars

\* C17: every score calculate_provider_trust_score computes lies in [0, 100],
\* whatever the booking, review and document counts and the response time, a
\* provider without bookings, reviews and documents included.  (A number of the
\* model is never below 0: every component and weight is >= 0.)
C17_TrustScoreInRange ==
    trustScore.result.outcome = "score"
       => LessOrEqual(trustScore.result.score, OneHundred)

\* The score of a provider with every booking completed, every rating 5, every
\* document verified and a response within 15 minutes: exactly 100; and the
\* score of a provider without any history, which is 5 (0.1 x 50).
C17_Witness ==
    /\ trustScore.result.outcome = "score"
    /\ \/ /\ trustScore.db.own = <<MaxBookings, MaxBookings>>
          /\ trustScore.result.score = IntToDouble(100)
       \/ /\ trustScore.db.own = <<0, 0>>
          /\ trustScore.db.ratings = <<>>
          /\ trustScore.db.docs = <<0, 0>>
          /\ trustScore.result.score = IntToDouble(5)

\* The score the weighted formula gives provider P from P's own data alone:
\* completion from P's bookings, rating from P's reviews, verification from P's
\* documents, responsiveness from P's response time, 50 when that is undefined.
ScoreOfOwnData(db) ==
    Plus(Plus(Plus(Times(Percentage(db.own[1], db.own[2]), DivideInts(4, 10)),
                   Times(AverageRatingScore(db.ratings), DivideInts(3, 10))),
              Times(Percentage(db.docs[1], db.docs[2]), DivideInts(2, 10))),
         Times(IntToDouble(IF db.profile.exists
                           THEN ResponseScore(db.profile.response_time_min)
                           ELSE 50),
               DivideInts(1, 10)))

\* C25: calculate_provider_trust_score returns exactly 0.4 x completion + 0.3 x
\* rating + 0.2 x verification + 0.1 x responsiveness of the provider, each
\* component 0 when its denominator is 0 and responsiveness 50 when the
\* response time is undefined; the calculation never fails and never returns
\* an undefined score.
C25_ExactWeightedFormula ==
    trustScore.called
       => /\ trustScore.result.outcome = "score"
          /\ trustScore.result.score = ScoreOfOwnData(trustScore.db)

\* Two states of the marketplace agree on provider P's own data.
SameOwnData(db1, db2) ==
    /\ db1.own = db2.own
    /\ db1.ratings = db2.ratings
    /\ db1.docs = db2.docs
    /\ db1.profile = db2.profile

\* C26: a provider's trust score depends only on the provider's own data: in
\* any marketplace state that agrees with the present one on P's bookings,
\* reviews, documents and response time, whatever the other providers'
\* bookings, calculate_provider_trust_score(P) returns the same value.
C26_ScoreDependsOnOwnDataOnly ==
    trustScore.called
       => \A db \in TrustTables :
             SameOwnData(db, trustScore.db)
                => calculate_provider_trust_score(db, trustScore.conflict) = trustScore.result

-----------------------------------------------------------------------------
(* Document verification: reviewDocument, bulkReviewDocuments              *)

\* One provider with skills; the document types the categories of those skills
\* require; the provider's documents, numbered in the order of their createdAt.
DocIds == 1..MaxDocuments
DocumentTypes == {"NIC_FRONT", "POLICE_CLEARANCE"}
ReviewStatuses == {"VERIFIED", "REJECTED"}

NoDocument == [exists |-> FALSE, documentType |-> NULL, status |-> NULL]
Document(documentType, docStatus) ==
    [exists |-> TRUE, documentType |-> documentType, status |-> docStatus]

IdleReview == [pc |-> "idle", documentIds |-> {}, status |-> NULL, oldStatus |-> NULL]

\* latestDocsByType.get(docType): the document of the type with the greatest
\* createdAt, as a set (empty when the provider has none of the type).
latestDocsByType(docs, docType) ==
    { d \in DocIds :
        /\ docs[d].exists
        /\ docs[d].documentType = docType
        /\ \A o \in DocIds :
              (docs[o].exists /\ docs[o].documentType = docType) => o <= d }

\* Array.from(requiredDocTypes).every(t => latestDocsByType.get(t)?.status === VERIFIED)
allVerified(required, docs) ==
    \A docType \in required :
        \E d \in latestDocsByType(docs, docType) : docs[d].status = "VERIFIED"

\* reviewDocument: findUnique, and the update of the document's status.  A
\* document that does not exist is answered 404 and nothing is written.
ReviewDocument(d, reviewStatus) ==
    /\ docReview.set
    /\ docReview.review.pc = "idle"
    /\ docReview.reviews < MaxReviews
    /\ docReview' =
          IF ~docReview.docs[d].exists
          THEN [docReview EXCEPT !.reviews = @ + 1]
          ELSE [docReview EXCEPT
                  !.reviews = @ + 1,
                  !.docs[d].status = reviewStatus,
                  !.review = [pc |-> "audit", documentIds |-> {d}, status |-> reviewStatus,
                              oldStatus |-> docReview.docs[d].status]]
    /\ UNCHANGED <<matchVars, bookingVars, upd, notif, rel, esc, contactVars, calcVars, apiVars,
                   checkout, auditLog, smsLog>>

\* prisma.auditLog.create({ action: `DOCUMENT_${status}` }); a rejection ends
\* the request here, an approval goes on to checkAndUpdateProviderVerification.
ReviewAudited ==
    /\ docReview.set
    /\ docReview.review.pc = "audit"
    /\ auditLog' = auditLog (+) SetToBag(
                      {[action |-> IF docReview.review.status = "VERIFIED" THEN "DOCUMENT_VERIFIED"
                                   ELSE "DOCUMENT_REJECTED",
                        documentIds |-> docReview.review.documentIds,
                        oldStatus |-> docReview.review.oldStatus,
                        status |-> docReview.review.status]})
    /\ docReview' = [docReview EXCEPT
                        !.review = IF docReview.review.status = "VERIFIED"
                                   THEN [@ EXCEPT !.pc = "check"]
                                   ELSE IdleReview]
    /\ UNCHANGED <<matchVars, bookingVars, upd, notif, rel, esc, contactVars, calcVars, apiVars,
                   checkout, smsLog>>

\* checkAndUpdateProviderVerification: the read of the provider with skills and
\* documents, and the test; nothing is written unless every required type's
\* latest document is VERIFIED.
CheckProviderVerification ==
    /\ docReview.set
    /\ docReview.review.pc = "check"
    /\ docReview' = [docReview EXCEPT
                        !.review = IF allVerified(docReview.required, docReview.docs)
                                   THEN [@ EXCEPT !.pc = "skills"]
                                   ELSE IdleReview]
    /\ UNCHANGED <<matchVars, bookingVars, upd, notif, rel, esc, contactVars, calcVars, apiVars,
                   checkout, auditLog, smsLog>>

\* prisma.providerSkill.updateMany({ where: { providerId }, data: { isVerified: true } })
MarkSkillsVerified ==
    /\ docReview.set
    /\ docReview.review.pc = "skills"
    /\ docReview' = [docReview EXCEPT !.isVerified = TRUE, !.review.pc = "profile"]
    /\ UNCHANGED <<matchVars, bookingVars, upd, notif, rel, esc, contactVars, calcVars, apiVars,
                   checkout, auditLog, smsLog>>

\* prisma.profile.update({ data: { isAvailable: true } })
MarkProfileAvailable ==
    /\ docReview.set
    /\ docReview.review.pc = "profile"
    /\ docReview' = [docReview EXCEPT !.isAvailable = TRUE, !.review = IdleReview]
    /\ UNCHANGED <<matchVars, bookingVars, upd, notif, rel, esc, contactVars, calcVars, apiVars,
                   checkout, auditLog, smsLog>>

\* bulkReviewDocuments: verificationDoc.updateMany over the listed ids.
BulkReviewDocuments(documentIds, reviewStatus) ==
    /\ docReview.set
    /\ docReview.bulk.pc = "idle"
    /\ docReview.reviews < MaxReviews
    /\ docReview' = [docReview EXCEPT
                        !.reviews = @ + 1,
                        !.docs = [d \in DocIds |->
                                    IF d \in documentIds /\ docReview.docs[d].exists
                                    THEN [docReview.docs[d] EXCEPT !.status = reviewStatus]
                                    ELSE docReview.docs[d]],
                        !.bulk = [pc |-> "audit", documentIds |-> documentIds,
                                  status |-> reviewStatus, oldStatus |-> NULL]]
    /\ UNCHANGED <<matchVars, bookingVars, upd, notif, rel, esc, contactVars, calcVars, apiVars,
                   checkout, auditLog, smsLog>>

\* prisma.auditLog.create({ action: `BULK_DOCUMENT_${status}` }) and the
\* response; the provider's verification is not looked at.
BulkReviewAudited ==
    /\ docReview.set
    /\ docReview.bulk.pc = "audit"
    /\ auditLog' = auditLog (+) SetToBag(
                      {[action |-> IF docReview.bulk.status = "VERIFIED" THEN "BULK_DOCUMENT_VERIFIED"
                                   ELSE "BULK_DOCUMENT_REJECTED",
                        documentIds |-> docReview.bulk.documentIds,
                        oldStatus |-> NULL, status |-> docReview.bulk.status]})
    /\ docReview' = [docReview EXCEPT !.bulk = IdleReview]
    /\ UNCHANGED <<matchVars, bookingVars, upd, notif, rel, esc, contactVars, calcVars, apiVars,
                   checkout, smsLog>>

\* The provider uploads a new version of a document: a new row, PENDING, with
\* the latest createdAt.
UploadDocument(documentType) ==
    /\ docReview.set
    /\ \E d \in DocIds :
          /\ ~docReview.docs[d].exists
          /\ \A o \in DocIds : o < d => docReview.docs[o].exists
          /\ docReview' = [docReview EXCEPT !.docs[d] = Document(documentType, "PENDING")]
    /\ UNCHANGED <<matchVars, bookingVars, upd, notif, rel, esc, contactVars, calcVars, apiVars,
                   checkout, auditLog, smsLog>>

InitVerification ==
    /\ providers = [u \in ProviderIds |-> ProviderRow("PROVIDER", TRUE, 1000, {})]
    /\ matchOutcome = NoMatch
    /\ status = "PENDING"
    /\ providerId = NULL
    /\ paymentStatus = "PENDING"
    /\ cancellationReason = NULL
    /\ upd = [u \in UpdCallers |-> IdleUpd]
    /\ notif = [n \in NotifCallers |-> IdleNotif]
    /\ rel = [r \in RelCallers |-> IdleRel]
    /\ esc = [e \in EscCallers |-> IdleEsc]
    /\ locationAddress = Address(PlainAddress)
    /\ emergencyPhone = NULL
    /\ smsGateway = "up"
    /\ NoCalculations
    /\ NoApiCalls
    /\ \E required \in {{"NIC_FRONT"}, DocumentTypes} :
          docReview = [set |-> TRUE, required |-> required,
                       docs |-> [d \in DocIds |->
                                   IF d = 1 THEN Document("NIC_FRONT", "PENDING")
                                   ELSE IF d = 2 THEN Document("POLICE_CLEARANCE", "PENDING")
                                   ELSE NoDocument],
                       isVerified |-> FALSE, isAvailable |-> FALSE,
                       review |-> IdleReview, bulk |-> IdleReview, reviews |-> 0]
    /\ checkout = [set |-> FALSE]
    /\ auditLog = EmptyBag
    /\ smsLog = EmptyBag

NextVerification ==
    \/ \E d \in DocIds, reviewStatus \in ReviewStatuses : ReviewDocument(d, reviewStatus)
    \/ ReviewAudited
    \/ CheckProviderVerification
    \/ MarkSkillsVerified
    \/ MarkProfileAvailable
    \/ \E documentIds \in SUBSET DocIds, reviewStatus \in ReviewStatuses :
          BulkReviewDocuments(documentIds, reviewStatus)
    \/ BulkReviewAudited
    \/ \E documentType \in DocumentTypes : UploadDocument(documentType)

SpecVerification == InitVerification /\ [][NextVerification]_vars

\* C27: the provider's skills are marked isVerified only while the latest
\* document of every document type the skills require has status VERIFIED: a
\* provider with a required document whose latest version is REJECTED or
\* PENDING is not marked verified.
C27_VerifiedOnlyWhileDocumentsVerified ==
    docReview.isVerified
       => \A docType \in docReview.required :
             \E d \in DocIds :
                /\ docReview.docs[d].exists
                /\ docReview.docs[d].documentType = docType
                /\ docReview.docs[d].status = "VERIFIED"
                /\ \A o \in DocIds :
                      (docReview.docs[o].exists /\ docReview.docs[o].documentType = docType)
                         => o <= d

-----------------------------------------------------------------------------
(* Booking creation: the booking record of a failed call                   *)

ValidationCodes == {"CUSTOMER_NOT_FOUND", "SERVICE_CATEGORY_NOT_FOUND"}

\* C29: when the customer or the service category of the request is missing or
\* inactive, createBookingAndFindMatches fails with CUSTOMER_NOT_FOUND or
\* SERVICE_CATEGORY_NOT_FOUND before any insert: no booking record exists, and
\* the provider search has not run. A request with a missing or inactive
\* customer or category never reaches the insert.
C29_NoBookingOnValidationFailure ==
    /\ (create.pc = "failed" /\ create.err.code \in ValidationCodes)
          => /\ status = NULL
             /\ matchOutcome = NoMatch
    /\ (create.pc # "idle" /\ ( \/ create.input.customer \in {"missing", "inactive"}
                                \/ create.input.category \in {"missing", "inactive"} ))
          => /\ status = NULL
             /\ create.pc \in {"category", "failed"}
             /\ create.pc = "failed" => create.err.code \in ValidationCodes
             /\ (create.pc = "failed" /\ create.input.customer = "active")
                   => create.err.code = "SERVICE_CATEGORY_NOT_FOUND"

\* An active customer asked for an inactive category: the call failed with
\* SERVICE_CATEGORY_NOT_FOUND and there is no booking.
C29_Witness ==
    /\ create.pc = "failed"
    /\ create.input.customer = "active"
    /\ create.input.category = "inactive"
    /\ create.err = Error("AppError", "SERVICE_CATEGORY_NOT_FOUND")
    /\ status = NULL

\* C30: createBookingAndFindMatches is all-or-nothing: whenever the call has
\* ended with an error, a GeospatialQueryError of the provider search
\* included, no booking record exists; a record exists after the call only if
\* the call returned a result.
C30_NoBookingAfterFailedCall ==
    create.pc = "failed" => status = NULL

-----------------------------------------------------------------------------
(* Checkout: createBookingPayment                                          *)

PayCallers == 1..MaxPaymentCalls

IdlePay == [pc |-> "idle", bookingId |-> NULL, seenPaymentStatus |-> NULL, err |-> NULL]

\* createBookingPayment: findUnique and the two checks on what it read.
CreateBookingPayment(c) ==
    /\ checkout.set
    /\ checkout.calls[c].pc = "idle"
    /\ \E b \in {ExistingBooking, MissingBooking} :
         checkout' = [checkout EXCEPT !.calls[c] =
            IF b # ExistingBooking
            THEN [IdlePay EXCEPT !.pc = "failed", !.bookingId = b, !.err = "Booking not found"]
            ELSE IF paymentStatus # "PENDING"
            THEN [IdlePay EXCEPT !.pc = "failed", !.bookingId = b,
                                 !.seenPaymentStatus = paymentStatus,
                                 !.err = "Payment already initiated"]
            ELSE [IdlePay EXCEPT !.pc = "initiate", !.bookingId = b,
                                 !.seenPaymentStatus = paymentStatus]]
    /\ UNCHANGED <<matchVars, bookingVars, upd, notif, rel, esc, contactVars, calcVars, apiVars,
                   docReview, auditLog, smsLog>>

\* initiatePayment: a checkout with a fresh order id (CL-<bookingId>-<now>) is
\* built for the booking.
InitiatePayment(c) ==
    /\ checkout.set
    /\ checkout.calls[c].pc = "initiate"
    /\ checkout' = [checkout EXCEPT
                       !.orders = @ \cup {[orderId |-> c, bookingId |-> checkout.calls[c].bookingId]},
                       !.calls[c].pc = "update"]
    /\ UNCHANGED <<matchVars, bookingVars, upd, notif, rel, esc, contactVars, calcVars, apiVars,
                   docReview, auditLog, smsLog>>

\* prisma.booking.update({ data: { paymentStatus: PENDING } }) and the return
\* of the checkout to the caller.
PaymentReferenceStored(c) ==
    /\ checkout.set
    /\ checkout.calls[c].pc = "update"
    /\ paymentStatus' = "PENDING"
    /\ checkout' = [checkout EXCEPT !.calls[c].pc = "done"]
    /\ UNCHANGED <<matchVars, status, providerId, cancellationReason, upd, notif, rel, esc,
                   contactVars, calcVars, apiVars, docReview, auditLog, smsLog>>

InitCheckout ==
    /\ providers = [u \in ProviderIds |-> ProviderRow("PROVIDER", TRUE, 1000, {})]
    /\ matchOutcome = NoMatch
    /\ status \in {"PENDING", "MATCHED", "CONFIRMED"}
    /\ providerId = NULL
    /\ paymentStatus \in PaymentStatuses
    /\ cancellationReason = NULL
    /\ upd = [u \in UpdCallers |-> IdleUpd]
    /\ notif = [n \in NotifCallers |-> IdleNotif]
    /\ rel = [r \in RelCallers |-> IdleRel]
    /\ esc = [e \in EscCallers |-> IdleEsc]
    /\ locationAddress = Address(PlainAddress)
    /\ emergencyPhone = NULL
    /\ smsGateway = "up"
    /\ NoCalculations
    /\ NoApiCalls
    /\ docReview = [set |-> FALSE]
    /\ checkout = [set |-> TRUE, calls |-> [c \in PayCallers |-> IdlePay], orders |-> {}]
    /\ auditLog = EmptyBag
    /\ smsLog = EmptyBag

NextCheckout ==
    \E c \in PayCallers :
        \/ CreateBookingPayment(c)
        \/ InitiatePayment(c)
        \/ PaymentReferenceStored(c)

SpecCheckout == InitCheckout /\ [][NextCheckout]_vars

\* C28: at most one checkout is outstanding per booking: createBookingPayment
\* passes its checks only when the payment status is PENDING, and once one call
\* has succeeded, a further call for the booking (no failure or cancellation
\* notification having arrived) fails with 'Payment already initiated' and
\* initiates no second checkout.
C28_OneCheckoutPerBooking ==
    /\ [](\A c \in PayCallers :
            checkout.calls[c].pc \in {"initiate", "update", "done"}
               => checkout.calls[c].seenPaymentStatus = "PENDING")
    /\ [](Cardinality({ o \in checkout.orders : o.bookingId = ExistingBooking }) <= 1)
    /\ [][ \A c \in PayCallers :
             ( /\ checkout.calls[c].pc = "idle"
               /\ checkout'.calls[c].pc # "idle"
               /\ checkout'.calls[c].bookingId = ExistingBooking
               /\ \E o \in PayCallers : checkout.calls[o].pc = "done" )
             => /\ checkout'.calls[c].pc = "failed"
                /\ checkout'.calls[c].err = "Payment already initiated" ]_vars

-----------------------------------------------------------------------------
(* Two concurrent calls on the same booking                                *)

\* The two requests that run at the same time.
ConcurrentCallers == {1, 2}

\* Two releaseEscrowPayment calls on a booking whose payment is held in escrow.
InitReleaseRace ==
    /\ providers = [u \in ProviderIds |-> ProviderRow("PROVIDER", TRUE, 1000, {})]
    /\ matchOutcome = NoMatch
    /\ status \in {"MATCHED", "CONFIRMED", "IN_PROGRESS", "COMPLETED", "DISPUTED"}
    /\ providerId = NULL
    /\ paymentStatus = "HELD_IN_ESCROW"
    /\ cancellationReason = NULL
    /\ upd = [u \in UpdCallers |-> IdleUpd]
    /\ notif = [n \in NotifCallers |-> IdleNotif]
    /\ rel = [r \in ConcurrentCallers |-> IdleRel]
    /\ esc = [e \in EscCallers |-> IdleEsc]
    /\ locationAddress = Address(PlainAddress)
    /\ emergencyPhone = NULL
    /\ smsGateway = "up"
    /\ NoCalculations
    /\ NoApiCalls
    /\ NoBackOfficeWork
    /\ auditLog = EmptyBag
    /\ smsLog = EmptyBag

NextReleaseRace ==
    \E r \in ConcurrentCallers :
        \/ ReleaseEscrowPayment(r)
        \/ ReleaseUpdatesStatus(r)
        \/ ReleaseAudited(r)

SpecReleaseRace == InitReleaseRace /\ [][NextReleaseRace]_vars

\* The PAYMENT_RELEASED rows of the audit log, counted with their copies.
ReleaseRecords ==
    LET rows == { row \in BagToSet(auditLog) : row.action = "PAYMENT_RELEASED" }
        count[S \in SUBSET rows] ==
            IF S = {} THEN 0
            ELSE LET row == CHOOSE x \in S : TRUE
                 IN  CopiesIn(row, auditLog) + count[S \ {row}]
    IN  count[rows]

\* C24: escrow is released at most once per booking: of two concurrent
\* releaseEscrowPayment calls on a booking in HELD_IN_ESCROW at most one passes
\* its check, at most one PAYMENT_RELEASED audit entry is written, and when both
\* calls have ended exactly one has succeeded and the other has failed with
\* 'Cannot release payment'.
C24_ReleasedAtMostOnce ==
    LET onBooking == { r \in ConcurrentCallers : rel[r].bookingId = ExistingBooking }
        passed == { r \in onBooking : rel[r].pc \in {"update", "audit", "done"} }
    IN  /\ Cardinality(passed) <= 1
        /\ ReleaseRecords <= 1
        /\ (onBooking = ConcurrentCallers
              /\ \A r \in ConcurrentCallers : rel[r].pc \in {"done", "failed"})
           => \E r \in ConcurrentCallers :
                 /\ rel[r].pc = "done"
                 /\ \A o \in ConcurrentCallers \ {r} :
                       rel[o].pc = "failed" /\ rel[o].err = "Cannot release payment"

\* Two escalateEmergency calls on the same booking.
InitEscalationRace ==
    /\ providers = [u \in ProviderIds |-> ProviderRow("PROVIDER", TRUE, 1000, {})]
    /\ matchOutcome = NoMatch
    /\ status \in {"MATCHED", "CONFIRMED", "IN_PROGRESS"}
    /\ providerId = NULL
    /\ paymentStatus = "PENDING"
    /\ cancellationReason = NULL
    /\ upd = [u \in UpdCallers |-> IdleUpd]
    /\ notif = [n \in NotifCallers |-> IdleNotif]
    /\ rel = [r \in RelCallers |-> IdleRel]
    /\ esc = [e \in ConcurrentCallers |-> IdleEsc]
    /\ locationAddress = Address(AsiriAddress)
    /\ emergencyPhone \in {NULL, "+94770000000"}
    /\ smsGateway = "up"
    /\ NoCalculations
    /\ NoApiCalls
    /\ NoBackOfficeWork
    /\ auditLog = EmptyBag
    /\ smsLog = EmptyBag

NextEscalationRace ==
    \E e \in ConcurrentCallers :
        \/ EscalateEmergency(e)
        \/ EscalationFreezesShift(e)
        \/ EscalationNotifies(e)
        \/ EscalationAudited(e)

SpecEscalationRace == InitEscalationRace /\ [][NextEscalationRace]_vars

\* The EMERGENCY_ESCALATION rows of the audit log, counted with their copies.
IncidentRecords ==
    LET rows == { row \in BagToSet(auditLog) : row.action = "EMERGENCY_ESCALATION" }
        count[S \in SUBSET rows] ==
            IF S = {} THEN 0
            ELSE LET row == CHOOSE x \in S : TRUE
                 IN  CopiesIn(row, auditLog) + count[S \ {row}]
    IN  count[rows]

\* C23: for one booking at most one escalateEmergency call succeeds and at most
\* one incident record is created, in every interleaving of two concurrent
\* calls: the second call finds the booking DISPUTED and fails without writing
\* a record.
C23_OneIncidentPerEmergency ==
    /\ Cardinality({ e \in ConcurrentCallers : esc[e].pc = "done" }) <= 1
    /\ IncidentRecords <= 1
    /\ \A e \in ConcurrentCallers :
          (esc[e].pc \notin {"idle", "failed"} /\ esc[e].input.shiftId = ExistingBooking)
             => \A o \in ConcurrentCallers \ {e} :
                   (esc[o].pc # "idle" /\ esc[o].input.shiftId = ExistingBooking)
                      => esc[o].pc = "failed"

=============================================================================
